---- MODULE Spec2Model ----
(***************************************************************************)
(* Model of the interpreter intrinsics of                                  *)
(* compiler/rustc_const_eval/src/interpret/intrinsics.rs over an abstract  *)
(* byte-addressable memory with provenance, of the buffer management of    *)
(* BufReader (library/std/src/io/buffered/bufreader/buffer.rs) and of the  *)
(* repetitions of the macro transcriber                                    *)
(* (crates/ra_mbe/src/mbe_expander/transcriber.rs).                        *)
(*                                                                         *)
(* Eight specifications share the variables:                               *)
(*   Spec         ptr_offset_from, ptr_offset_from_unsigned,               *)
(*                ptr_offset_inbounds, arith_offset; memory fixed;         *)
(*   SpecSwap     typed_swap on a small memory of drawn contents;          *)
(*   SpecMem      copy, copy_nonoverlapping, write_bytes, compare_bytes,   *)
(*                raw_eq on a memory of drawn buffers;                     *)
(*   SpecArith    saturating_add, saturating_sub, exact_div;               *)
(*   SpecBits     bswap, bitreverse, ctpop, ctlz, cttz, ctlz_nonzero,      *)
(*                cttz_nonzero, rotate_left, rotate_right;                 *)
(*   SpecDispatch emulate_intrinsic as a whole: the match on the name,     *)
(*                then return_to_block;                                    *)
(*   SpecBuffer   a Buffer under any sequence of its methods;              *)
(*   SpecExpand   expand_repeat on drawn templates and bindings.           *)
(* The first six evaluate one call on drawn arguments.                     *)
(***************************************************************************)
EXTENDS Integers, Sequences, FiniteSets, TLC

\* Width of a pointer of the modelled target, in bits (scaled down).
PtrBits == 5

\* Pointee sizes 1..MaxPointeeSize are drawn for ptr_offset_from<T>.
MaxPointeeSize == 2

\* Sizes 1..MaxSwapSize of the layout swapped by typed_swap<T>.
MaxSwapSize == 2

\* Size in bytes of each allocation of the bulk-memory specification.
MaxLen == 4

\* Element counts 0..MaxCount are drawn for copy and write_bytes, next to the
\* largest isize and usize.
MaxCount == 2

\* Width in bytes of u128, the working width of the bit operations (scaled
\* down).
WideBytes == 2

\* Shift amounts 0..MaxShift are drawn for the u32 shift of the rotations.
MaxShift == 33

\* Width of usize in the Buffer specification, in bits (scaled down).
UsizeBits == 2

\* Capacities 0..MaxCapacity are drawn for Buffer::with_capacity.
MaxCapacity == 2

\* The number of iterations after which expand_repeat gives up (scaled down
\* from 65536).
limit == 5

VARIABLES
    OFFSET_IS_ADDR, \* M::Provenance::OFFSET_IS_ADDR of the machine
    mem,            \* the allocations, indexed by AllocId
    call,           \* the call being evaluated and its arguments
    outcome,        \* what the call returned
    dest,           \* the call's destination place
    ecx,            \* the interpreter's position: inside emulate_intrinsic and
                    \* in the calling frame, and what the machine was told
    buffer,         \* a BufReader Buffer
    ctx             \* the ExpandCtx of the macro transcriber

vars == <<OFFSET_IS_ADDR, mem, call, outcome, dest, ecx, buffer, ctx>>

\* The interpreter entering emulate_intrinsic: the calling frame stands at
\* the call, no return_to_block has run and the machine was told of no panic.
AtCallSite == [pc |-> "match", loc |-> "call", returns |-> 0, panics |-> << >>]

\* A Buffer of no capacity and an ExpandCtx outside every repetition.
NoBuffer == [buf |-> << >>, pos |-> 0, filled |-> 0, initialized |-> 0]
NoCtx == [bindings |-> << >>, nesting |-> << >>]

\* The state of the programs that a specification does not run.
elsewhere == <<ecx, buffer, ctx>>
NotRun == ecx = AtCallSite /\ buffer = NoBuffer /\ ctx = NoCtx

---------------------------------------------------------------------------
\* Target integers

max_ptr_plus_1 == 2^PtrBits
target_isize_max == 2^(PtrBits - 1) - 1
target_isize_min == -(2^(PtrBits - 1))
signed_int_min == -(2^(PtrBits - 1))

unsigned_abs(i) == IF i < 0 THEN -i ELSE i

\* Scalar::to_target_isize: a pointer-sized bit pattern read as signed.
to_target_isize(bits) ==
    IF bits >= 2^(PtrBits - 1) THEN bits - max_ptr_plus_1 ELSE bits

\* binary_op(BinOp::SubWithOverflow) on two usize values.
SubWithOverflow(l, r) ==
    [val |-> (l - r + max_ptr_plus_1) % max_ptr_plus_1, overflowed |-> l < r]

---------------------------------------------------------------------------
\* Pointers and allocations

\* Option<Provenance>::None: a pointer that is a bare integer.
NoProv == 0

Ptr(prov, offset) == [prov |-> prov, offset |-> offset]

Cell(init, byte, prov) == [init |-> init, byte |-> byte, prov |-> prov]

Alloc(live, base, size, cells) ==
    [live |-> live, base |-> base, size |-> size, cells |-> cells]

ZeroCells(n) == [i \in 1..n |-> Cell(TRUE, 0, NoProv)]

\* The memory of the pointer specification: two adjacent live allocations,
\* [4, 16) and [16, 20); address 0 is null and belongs to none.
PtrMem == << Alloc(TRUE, 4, 12, ZeroCells(12)), Alloc(TRUE, 16, 4, ZeroCells(4)) >>

AllocIds == 1..Len(mem)

\* Pointer::addr: the offset field, absolute when OFFSET_IS_ADDR or bare.
addr(p) == p.offset

\* ptr_try_get_alloc_id against memory m: Ok((alloc_id, offset, _)) or Err(addr).
ptr_try_get_alloc_id_in(m, p) ==
    IF p.prov = NoProv
    THEN [ok |-> FALSE, alloc_id |-> NoProv, offset |-> 0, addr |-> p.offset]
    ELSE [ok |-> TRUE, alloc_id |-> p.prov,
          offset |-> IF OFFSET_IS_ADDR
                     THEN (p.offset - m[p.prov].base + max_ptr_plus_1) % max_ptr_plus_1
                     ELSE p.offset,
          addr |-> 0]

ptr_try_get_alloc_id(p) == ptr_try_get_alloc_id_in(mem, p)

\* check_int_ptr rejecting every access at the null address.
check_int_ptr_null_dangles(a, size) ==
    IF size > 0 \/ a = 0 THEN "DanglingIntPointer" ELSE "none"

\* An integer pointer is its own allocation of size 0: a zero-length access
\* is fine at any address, any longer one dangles.
check_int_ptr(a, size) ==
    IF size > 0 THEN "DanglingIntPointer" ELSE "none"

\* check_ptr_access against memory m: "none", or the UB the access is.
check_ptr_access_in(m, p, size) ==
    LET r == ptr_try_get_alloc_id_in(m, p) IN
    IF ~r.ok THEN check_int_ptr(r.addr, size)
    ELSE IF size = 0 THEN "none"
    ELSE IF ~m[r.alloc_id].live THEN "PointerUseAfterFree"
    ELSE IF r.offset + size > m[r.alloc_id].size THEN "PointerOutOfBounds"
    ELSE "none"

check_ptr_access(p, size) == check_ptr_access_in(mem, p, size)

---------------------------------------------------------------------------
\* Outcomes

NullPtr == Ptr(NoProv, 0)

Outcome(status, err, val, ptr, has_dist, dist) ==
    [status |-> status, err |-> err, val |-> val, ptr |-> ptr,
     has_dist |-> has_dist, dist |-> dist]

Pending == Outcome("pending", "none", 0, NullPtr, FALSE, 0)
Throw(err) == Outcome("err", err, 0, NullPtr, FALSE, 0)
ThrowAt(err, dist) == Outcome("err", err, 0, NullPtr, TRUE, dist)
PanicAt(dist) == Outcome("panic", "assertion failed", 0, NullPtr, TRUE, dist)
OkVal(v, dist) == Outcome("ok", "none", v, NullPtr, TRUE, dist)
OkPtr(p) == Outcome("ok", "none", 0, p, FALSE, 0)
OkUnit == Outcome("ok", "none", 0, NullPtr, FALSE, 0)
Panic(msg) == Outcome("panic", msg, 0, NullPtr, FALSE, 0)

Unwritten == [written |-> FALSE, val |-> 0]
Written(v) == [written |-> TRUE, val |-> v]

---------------------------------------------------------------------------
\* exact_div

\* Integer division and remainder as Rust computes them (truncating).
TruncDiv(a, b) ==
    IF (a >= 0) = (b > 0)
    THEN unsigned_abs(a) \div unsigned_abs(b)
    ELSE -(unsigned_abs(a) \div unsigned_abs(b))

TruncRem(a, b) == a - b * TruncDiv(a, b)

\* Size::signed_int_min / signed_int_max / unsigned_int_max of an integer
\* type of the given width.
size_signed_int_min(bits) == -(2^(bits - 1))
size_signed_int_max(bits) == 2^(bits - 1) - 1
size_unsigned_int_max(bits) == 2^bits - 1

\* binary_op(BinOp::Rem) on integers of a type of the given width.
binary_op_Rem(a, b, signed, bits) ==
    IF b = 0 THEN [err |-> "RemainderByZero", val |-> 0]
    ELSE IF signed /\ a = size_signed_int_min(bits) /\ b = -1
    THEN [err |-> "RemainderOverflow", val |-> 0]
    ELSE [err |-> "none", val |-> TruncRem(a, b)]

\* binary_op(BinOp::Div) on integers of a type of the given width.
binary_op_Div(a, b, signed, bits) ==
    IF b = 0 THEN [err |-> "DivisionByZero", val |-> 0]
    ELSE IF signed /\ a = size_signed_int_min(bits) /\ b = -1
    THEN [err |-> "DivisionOverflow", val |-> 0]
    ELSE [err |-> "none", val |-> TruncDiv(a, b)]

\* exact_div without the test of the remainder.
exact_div_truncating(a, b, signed, bits) ==
    LET rem == binary_op_Rem(a, b, signed, bits) IN
    IF rem.err # "none" THEN rem
    ELSE binary_op_Div(a, b, signed, bits)

exact_div(a, b, signed, bits) ==
    LET rem == binary_op_Rem(a, b, signed, bits) IN
    IF rem.err # "none" THEN rem
    ELSE IF rem.val # 0 THEN [err |-> "exact_div_has_remainder", val |-> 0]
    ELSE binary_op_Div(a, b, signed, bits)

---------------------------------------------------------------------------
\* saturating_add / saturating_sub

\* An integer of a type of the given width and signedness, from its bits.
from_bits(x, signed, bits) ==
    LET u == x % 2^bits IN
    IF signed /\ u >= 2^(bits - 1) THEN u - 2^bits ELSE u

\* The overflowing operations with the signed range taken as symmetric, its
\* minimum mirrored to a maximum of the same magnitude.
binary_op_with_overflow_symmetric(mir_op, l, r, signed, bits) ==
    LET exact == IF mir_op = "Add" THEN l + r ELSE l - r
        val == from_bits(exact, signed, bits)
    IN [val |-> val,
        overflowed |-> IF signed THEN unsigned_abs(exact) > 2^(bits - 1)
                       ELSE val # exact]

\* binary_op(BinOp::AddWithOverflow | BinOp::SubWithOverflow): the wrapped
\* result and whether the exact one is out of the type's range.
binary_op_with_overflow(mir_op, l, r, signed, bits) ==
    LET exact == IF mir_op = "Add" THEN l + r ELSE l - r
        val == from_bits(exact, signed, bits)
    IN [val |-> val, overflowed |-> val # exact]

\* saturating_arith choosing the signed bound by the sign of the second term.
saturating_arith_second_term(mir_op, l, r, signed, bits) ==
    LET res == binary_op_with_overflow(mir_op, l, r, signed, bits) IN
    IF res.overflowed
    THEN IF signed
         THEN IF r >= 0
              THEN size_signed_int_max(bits)
              ELSE size_signed_int_min(bits)
         ELSE IF mir_op = "Add"
              THEN size_unsigned_int_max(bits)
              ELSE 0
    ELSE res.val

saturating_arith(mir_op, l, r, signed, bits) ==
    LET res == binary_op_with_overflow(mir_op, l, r, signed, bits) IN
    IF res.overflowed
    THEN IF signed
         THEN LET first_term == l IN
              IF first_term >= 0
              THEN size_signed_int_max(bits)
              ELSE size_signed_int_min(bits)
         ELSE IF mir_op = "Add"
              THEN size_unsigned_int_max(bits)
              ELSE 0
    ELSE res.val

---------------------------------------------------------------------------
\* ptr_offset_from / ptr_offset_from_unsigned

\* ptr_offset_from_offsets without the `a_alloc_id == b_alloc_id` guard.
ptr_offset_from_offsets_any_alloc(a, b) ==
    LET ra == ptr_try_get_alloc_id(a)
        rb == ptr_try_get_alloc_id(b)
    IN
    IF ~ra.ok /\ ~rb.ok
    THEN IF ra.addr # rb.addr
         THEN [err |-> "offset_from_different_integers", a_offset |-> 0, b_offset |-> 0]
         ELSE [err |-> "none", a_offset |-> ra.addr, b_offset |-> rb.addr]
    ELSE IF OFFSET_IS_ADDR /\ addr(a) = addr(b)
    THEN [err |-> "none", a_offset |-> 0, b_offset |-> 0]
    ELSE IF ra.ok /\ rb.ok
    THEN [err |-> "none", a_offset |-> ra.offset, b_offset |-> rb.offset]
    ELSE [err |-> "none", a_offset |-> addr(a), b_offset |-> addr(b)]

\* ptr_offset_from_offsets without the `a != b` test of two integers.
ptr_offset_from_offsets_any_integers(a, b) ==
    LET ra == ptr_try_get_alloc_id(a)
        rb == ptr_try_get_alloc_id(b)
    IN
    IF ~ra.ok /\ ~rb.ok
    THEN [err |-> "none", a_offset |-> ra.addr, b_offset |-> rb.addr]
    ELSE IF OFFSET_IS_ADDR /\ addr(a) = addr(b)
    THEN [err |-> "none", a_offset |-> 0, b_offset |-> 0]
    ELSE IF ra.ok /\ rb.ok /\ ra.alloc_id = rb.alloc_id
    THEN [err |-> "none", a_offset |-> ra.offset, b_offset |-> rb.offset]
    ELSE [err |-> "offset_from_different_allocations", a_offset |-> 0, b_offset |-> 0]

\* ptr_offset_from_offsets without the arm for equal addresses.
ptr_offset_from_offsets_no_addr_arm(a, b) ==
    LET ra == ptr_try_get_alloc_id(a)
        rb == ptr_try_get_alloc_id(b)
    IN
    IF ~ra.ok /\ ~rb.ok
    THEN IF ra.addr # rb.addr
         THEN [err |-> "offset_from_different_integers", a_offset |-> 0, b_offset |-> 0]
         ELSE [err |-> "none", a_offset |-> ra.addr, b_offset |-> rb.addr]
    ELSE IF ra.ok /\ rb.ok /\ ra.alloc_id = rb.alloc_id
    THEN [err |-> "none", a_offset |-> ra.offset, b_offset |-> rb.offset]
    ELSE [err |-> "offset_from_different_allocations", a_offset |-> 0, b_offset |-> 0]

\* "Get offsets for both that are at least relative to the same base."
ptr_offset_from_offsets(a, b) ==
    LET ra == ptr_try_get_alloc_id(a)
        rb == ptr_try_get_alloc_id(b)
    IN
    IF ~ra.ok /\ ~rb.ok
    THEN IF ra.addr # rb.addr
         THEN [err |-> "offset_from_different_integers", a_offset |-> 0, b_offset |-> 0]
         ELSE [err |-> "none", a_offset |-> ra.addr, b_offset |-> rb.addr]
    ELSE IF OFFSET_IS_ADDR /\ addr(a) = addr(b)
    THEN [err |-> "none", a_offset |-> 0, b_offset |-> 0]
    ELSE IF ra.ok /\ rb.ok /\ ra.alloc_id = rb.alloc_id
    THEN [err |-> "none", a_offset |-> ra.offset, b_offset |-> rb.offset]
    ELSE [err |-> "offset_from_different_allocations", a_offset |-> 0, b_offset |-> 0]

\* ptr_offset_from_dist subtracting the other way round (b - a).
ptr_offset_from_dist_swapped(intrinsic_name, a_offset, b_offset) ==
    LET r == SubWithOverflow(b_offset, a_offset)
        dist == to_target_isize(r.val)
    IN
    IF r.overflowed
    THEN IF intrinsic_name = "ptr_offset_from_unsigned"
         THEN [err |-> "offset_from_unsigned_overflow", dist |-> 0]
         ELSE IF dist >= 0 \/ dist = signed_int_min
         THEN [err |-> "offset_from_underflow", dist |-> 0]
         ELSE [err |-> "none", dist |-> dist]
    ELSE IF dist < 0
         THEN [err |-> "offset_from_overflow", dist |-> 0]
         ELSE [err |-> "none", dist |-> dist]

\* ptr_offset_from_dist treating the unsigned variant like the signed one.
ptr_offset_from_dist_no_unsigned_check(intrinsic_name, a_offset, b_offset) ==
    LET r == SubWithOverflow(a_offset, b_offset)
        dist == to_target_isize(r.val)
    IN
    IF r.overflowed
    THEN IF dist >= 0 \/ dist = signed_int_min
         THEN [err |-> "offset_from_underflow", dist |-> 0]
         ELSE [err |-> "none", dist |-> dist]
    ELSE IF dist < 0
         THEN [err |-> "offset_from_overflow", dist |-> 0]
         ELSE [err |-> "none", dist |-> dist]

\* ptr_offset_from_dist without the `== isize::MIN` test.
ptr_offset_from_dist_no_min_check(intrinsic_name, a_offset, b_offset) ==
    LET r == SubWithOverflow(a_offset, b_offset)
        dist == to_target_isize(r.val)
    IN
    IF r.overflowed
    THEN IF intrinsic_name = "ptr_offset_from_unsigned"
         THEN [err |-> "offset_from_unsigned_overflow", dist |-> 0]
         ELSE IF dist >= 0
         THEN [err |-> "offset_from_underflow", dist |-> 0]
         ELSE [err |-> "none", dist |-> dist]
    ELSE IF dist < 0
         THEN [err |-> "offset_from_overflow", dist |-> 0]
         ELSE [err |-> "none", dist |-> dist]

\* "Compute distance."
ptr_offset_from_dist(intrinsic_name, a_offset, b_offset) ==
    LET r == SubWithOverflow(a_offset, b_offset)
        dist == to_target_isize(r.val)
    IN
    IF r.overflowed
    THEN IF intrinsic_name = "ptr_offset_from_unsigned"
         THEN [err |-> "offset_from_unsigned_overflow", dist |-> 0]
         ELSE IF dist >= 0 \/ dist = signed_int_min
         THEN [err |-> "offset_from_underflow", dist |-> 0]
         ELSE [err |-> "none", dist |-> dist]
    ELSE IF dist < 0
         THEN [err |-> "offset_from_overflow", dist |-> 0]
         ELSE [err |-> "none", dist |-> dist]

\* ptr_offset_from_finish dividing before it checks the range.
ptr_offset_from_finish_div_first(intrinsic_name, a, b, dist, pointee_size) ==
    LET min_ptr == IF dist >= 0 THEN b ELSE a
        chk == check_ptr_access(min_ptr, unsigned_abs(dist))
        unsigned == intrinsic_name = "ptr_offset_from_unsigned"
        q == exact_div(dist, pointee_size, ~unsigned, PtrBits)
    IN
    IF q.err # "none" THEN ThrowAt(q.err, dist)
    ELSE IF chk # "none" THEN ThrowAt(chk, dist)
    ELSE OkVal(q.val, dist)

\* The dereferenceability check of the range between the pointers, the two
\* range assertions and the division by the pointee size.
ptr_offset_from_finish(intrinsic_name, a, b, dist, pointee_size) ==
    LET min_ptr == IF dist >= 0 THEN b ELSE a
        chk == check_ptr_access(min_ptr, unsigned_abs(dist))
        unsigned == intrinsic_name = "ptr_offset_from_unsigned"
        assert_ok == IF unsigned
                     THEN 0 <= dist /\ dist <= target_isize_max
                     ELSE target_isize_min <= dist /\ dist <= target_isize_max
        q == exact_div(dist, pointee_size, ~unsigned, PtrBits)
    IN
    IF chk # "none" THEN ThrowAt(chk, dist)
    ELSE IF ~assert_ok THEN PanicAt(dist)
    ELSE IF q.err # "none" THEN ThrowAt(q.err, dist)
    ELSE OkVal(q.val, dist)

\* The whole arm of emulate_intrinsic.
ptr_offset_from(intrinsic_name, a, b, pointee_size) ==
    LET offs == ptr_offset_from_offsets(a, b) IN
    IF offs.err # "none" THEN Throw(offs.err)
    ELSE LET d == ptr_offset_from_dist(intrinsic_name, offs.a_offset, offs.b_offset) IN
         IF d.err # "none" THEN Throw(d.err)
         ELSE ptr_offset_from_finish(intrinsic_name, a, b, d.dist, pointee_size)

---------------------------------------------------------------------------
\* ptr_offset_inbounds

\* PointerArithmetic::overflowing_signed_offset, behind Pointer::signed_offset.
overflowing_signed_offset(val, i) ==
    LET n == unsigned_abs(i) IN
    IF i >= 0
    THEN [val |-> (val + n) % max_ptr_plus_1,
          over |-> val + n >= max_ptr_plus_1 \/ i > target_isize_max]
    ELSE [val |-> (val - n + 2 * max_ptr_plus_1) % max_ptr_plus_1,
          over |-> val - n < 0 \/ i < target_isize_min]

\* ptr_offset_inbounds checking from `ptr` whatever the sign of the offset.
ptr_offset_inbounds_from_ptr(ptr, offset_bytes) ==
    LET so == overflowing_signed_offset(ptr.offset, offset_bytes) IN
    IF so.over THEN Throw("PointerArithOverflow")
    ELSE LET offset_ptr == Ptr(ptr.prov, so.val)
             chk == check_ptr_access(ptr, unsigned_abs(offset_bytes))
         IN
         IF chk # "none" THEN Throw(chk) ELSE OkPtr(offset_ptr)

\* ptr_offset_inbounds checking a zero-sized access instead of the span.
ptr_offset_inbounds_zero_size(ptr, offset_bytes) ==
    LET so == overflowing_signed_offset(ptr.offset, offset_bytes) IN
    IF so.over THEN Throw("PointerArithOverflow")
    ELSE LET offset_ptr == Ptr(ptr.prov, so.val)
             min_ptr == IF offset_bytes >= 0 THEN ptr ELSE offset_ptr
             chk == check_ptr_access(min_ptr, 0)
         IN
         IF chk # "none" THEN Throw(chk) ELSE OkPtr(offset_ptr)

ptr_offset_inbounds(ptr, offset_bytes) ==
    LET so == overflowing_signed_offset(ptr.offset, offset_bytes) IN
    IF so.over THEN Throw("PointerArithOverflow")
    ELSE LET offset_ptr == Ptr(ptr.prov, so.val)
             min_ptr == IF offset_bytes >= 0 THEN ptr ELSE offset_ptr
             chk == check_ptr_access(min_ptr, unsigned_abs(offset_bytes))
         IN
         IF chk # "none" THEN Throw(chk) ELSE OkPtr(offset_ptr)

---------------------------------------------------------------------------
\* arith_offset

\* Width of i64 on the scaled-down target: wider than a pointer.
i64_bits == PtrBits + 2

\* i64::wrapping_mul.
wrapping_mul(x, y) ==
    LET bits == (x * y) % 2^i64_bits IN
    IF bits >= 2^(i64_bits - 1) THEN bits - 2^i64_bits ELSE bits

\* Pointer::wrapping_signed_offset: the offset wraps, the provenance stays.
wrapping_signed_offset(ptr, i) ==
    Ptr(ptr.prov, overflowing_signed_offset(ptr.offset, i).val)

\* arith_offset offsetting by the count alone, not scaled by the pointee size.
arith_offset_unscaled(ptr, offset_count, pointee_size) ==
    OkPtr(wrapping_signed_offset(ptr, offset_count))

\* The arm of emulate_intrinsic.
arith_offset(ptr, offset_count, pointee_size) ==
    LET offset_bytes == wrapping_mul(offset_count, pointee_size)
        offset_ptr == wrapping_signed_offset(ptr, offset_bytes)
    IN OkPtr(offset_ptr)

---------------------------------------------------------------------------
\* The pointer specification: one call on drawn arguments

Call(name, a, b, offset_bytes, pointee_size) ==
    [intrinsic_name |-> name, a |-> a, b |-> b,
     offset_bytes |-> offset_bytes, pointee_size |-> pointee_size]

Pointers == [prov : 0..Len(PtrMem), offset : 0..(max_ptr_plus_1 - 1)]

OffsetFromNames == {"ptr_offset_from", "ptr_offset_from_unsigned"}

OffsetFromCalls ==
    {Call(nm, a, b, 0, sz) :
        nm \in OffsetFromNames, a \in Pointers, b \in Pointers,
        sz \in 1..MaxPointeeSize}

\* offset_bytes is an i64: it may lie outside the target's isize.
OffsetBytes == (target_isize_min - 1)..(target_isize_max + 1)

OffsetInboundsCalls ==
    {Call("ptr_offset_inbounds", p, NullPtr, n, 1) :
        p \in Pointers, n \in OffsetBytes}

ArithOffsetCall(ptr, offset_count, pointee_size) ==
    [intrinsic_name |-> "arith_offset", a |-> ptr,
     offset_count |-> offset_count, pointee_size |-> pointee_size]

\* Pointee sizes of arith_offset<T>: zero-sized types, and types large
\* enough for the multiplication to wrap.
ArithPointeeSizes == 0..(MaxPointeeSize + 3)

ArithOffsetCalls ==
    {ArithOffsetCall(p, n, sz) :
        p \in Pointers, n \in target_isize_min..target_isize_max,
        sz \in ArithPointeeSizes}

Init ==
    /\ OFFSET_IS_ADDR \in BOOLEAN
    /\ mem = PtrMem
    /\ \/ call \in OffsetFromCalls
       \/ call \in OffsetInboundsCalls
       \/ call \in ArithOffsetCalls
    /\ outcome = Pending
    /\ dest = Unwritten
    /\ NotRun

EmulatePtrOffsetFrom ==
    /\ outcome.status = "pending"
    /\ call.intrinsic_name \in OffsetFromNames
    /\ LET r == ptr_offset_from(call.intrinsic_name, call.a, call.b, call.pointee_size) IN
       /\ outcome' = r
       /\ dest' = IF r.status = "ok" THEN Written(r.val) ELSE dest
    /\ UNCHANGED <<OFFSET_IS_ADDR, mem, call>>
    /\ UNCHANGED elsewhere

PtrOffsetInbounds ==
    /\ outcome.status = "pending"
    /\ call.intrinsic_name = "ptr_offset_inbounds"
    /\ outcome' = ptr_offset_inbounds(call.a, call.offset_bytes)
    /\ UNCHANGED <<OFFSET_IS_ADDR, mem, call, dest>>
    /\ UNCHANGED elsewhere

EmulateArithOffset ==
    /\ outcome.status = "pending"
    /\ call.intrinsic_name = "arith_offset"
    /\ LET r == arith_offset(call.a, call.offset_count, call.pointee_size) IN
       /\ outcome' = r
       /\ dest' = Written(r.ptr)
    /\ UNCHANGED <<OFFSET_IS_ADDR, mem, call>>
    /\ UNCHANGED elsewhere

Next == EmulatePtrOffsetFrom \/ PtrOffsetInbounds \/ EmulateArithOffset

Spec == Init /\ [][Next]_vars

---------------------------------------------------------------------------
\* typed_swap

UninitCell == Cell(FALSE, 0, NoProv)

\* allocate(layout, kind): a fresh live allocation, uninitialized, placed
\* right after the last one; ids are never reused.
allocate(m, size) ==
    Append(m, Alloc(TRUE, m[Len(m)].base + m[Len(m)].size, size,
                    [i \in 1..size |-> UninitCell]))

\* The pointer to the start of allocation id of memory m.
alloc_ptr(m, id) == Ptr(id, IF OFFSET_IS_ADDR THEN m[id].base ELSE 0)

\* deallocate_ptr: the allocation is no longer live.
deallocate_ptr(m, ptr) == [m EXCEPT ![ptr.prov].live = FALSE]

\* copy_op between two places of the same layout: both ranges are checked,
\* then the bytes move with their initialization state and provenance.
copy_op(m, src, dst, size) ==
    LET rs == ptr_try_get_alloc_id_in(m, src)
        rd == ptr_try_get_alloc_id_in(m, dst)
        es == check_ptr_access_in(m, src, size)
        ed == check_ptr_access_in(m, dst, size)
    IN
    IF es # "none" THEN [err |-> es, mem |-> m]
    ELSE IF ed # "none" THEN [err |-> ed, mem |-> m]
    ELSE [err |-> "none",
          mem |-> [m EXCEPT ![rd.alloc_id].cells =
                      [i \in 1..Len(@) |->
                          IF i - 1 >= rd.offset /\ i - 1 < rd.offset + size
                          THEN m[rs.alloc_id].cells[i - rd.offset + rs.offset]
                          ELSE @[i]]]]

\* typed_swap_intrinsic copying right over left before left is saved.
typed_swap_intrinsic_no_temp(m, left, right, size) ==
    LET m0 == allocate(m, size)
        temp == alloc_ptr(m0, Len(m0))
        c2 == copy_op(m0, right, left, size)
    IN
    IF c2.err # "none" THEN [mem |-> c2.mem, outcome |-> Throw(c2.err)]
    ELSE LET c3 == copy_op(c2.mem, left, right, size) IN
         IF c3.err # "none" THEN [mem |-> c3.mem, outcome |-> Throw(c3.err)]
         ELSE [mem |-> deallocate_ptr(c3.mem, temp), outcome |-> OkUnit]

typed_swap_intrinsic(m, left, right, size) ==
    LET m0 == allocate(m, size)
        temp == alloc_ptr(m0, Len(m0))
        c1 == copy_op(m0, left, temp, size)
    IN
    IF c1.err # "none" THEN [mem |-> c1.mem, outcome |-> Throw(c1.err)]
    ELSE LET c2 == copy_op(c1.mem, right, left, size) IN
         IF c2.err # "none" THEN [mem |-> c2.mem, outcome |-> Throw(c2.err)]
         ELSE LET c3 == copy_op(c2.mem, temp, right, size) IN
              IF c3.err # "none" THEN [mem |-> c3.mem, outcome |-> Throw(c3.err)]
              ELSE [mem |-> deallocate_ptr(c3.mem, temp), outcome |-> OkUnit]

---------------------------------------------------------------------------
\* The swap specification: one typed_swap call on a drawn memory

\* What a byte of the drawn memory may hold: uninitialized, a plain byte, or
\* a byte of a stored pointer into allocation 1.
SwapCells == {UninitCell, Cell(TRUE, 1, NoProv), Cell(TRUE, 2, 1)}

\* Two live allocations of two bytes each, at [1, 3) and [3, 5).
SwapMems ==
    {<< Alloc(TRUE, 1, 2, <<c1, c2>>), Alloc(TRUE, 3, 2, <<c3, c4>>) >> :
        c1 \in SwapCells, c2 \in SwapCells, c3 \in SwapCells, c4 \in SwapCells}

SwapPointers == [prov : 0..2, offset : 0..4]

SwapCalls ==
    {Call("typed_swap", l, r, 0, sz) :
        l \in SwapPointers, r \in SwapPointers, sz \in 1..MaxSwapSize}

InitSwap ==
    /\ OFFSET_IS_ADDR \in BOOLEAN
    /\ mem \in SwapMems
    /\ call \in SwapCalls
    /\ outcome = Pending
    /\ dest = Unwritten
    /\ NotRun

TypedSwap ==
    /\ outcome.status = "pending"
    /\ call.intrinsic_name = "typed_swap"
    /\ LET r == typed_swap_intrinsic(mem, call.a, call.b, call.pointee_size) IN
       /\ mem' = r.mem
       /\ outcome' = r.outcome
    /\ UNCHANGED <<OFFSET_IS_ADDR, call, dest>>
    /\ UNCHANGED elsewhere

NextSwap == TypedSwap

SpecSwap == InitSwap /\ [][NextSwap]_vars

---------------------------------------------------------------------------
\* copy, copy_nonoverlapping, write_bytes, compare_bytes, raw_eq

\* An operand of the call: what reading it as a pointer or a scalar gives.
\* An operand that does not hold such a value (uninitialized, say) cannot be
\* read.
Operand(v) == [ok |-> TRUE, val |-> v]
UnreadablePointer == [ok |-> FALSE, val |-> NullPtr]
UnreadableScalar == [ok |-> FALSE, val |-> 0]

\* read_pointer, read_scalar, read_target_usize on an operand.
read_operand(op) ==
    IF op.ok THEN [err |-> "none", val |-> op.val]
    ELSE [err |-> "InvalidUninitBytes", val |-> op.val]

\* TargetDataLayout::obj_size_bound.
obj_size_bound == 2^(PtrBits - 1)

\* Size::checked_mul(count, cx).
checked_mul(size, count) ==
    IF size * count < obj_size_bound
    THEN [some |-> TRUE, val |-> size * count]
    ELSE [some |-> FALSE, val |-> 0]

\* check_ptr_align against memory m.
check_ptr_align_in(m, ptr, align) ==
    LET a == IF ptr.prov = NoProv \/ OFFSET_IS_ADDR THEN ptr.offset
             ELSE m[ptr.prov].base + ptr.offset
    IN IF a % align = 0 THEN "none" ELSE "AlignmentCheckFailed"

\* Two ranges of `size` bytes of one allocation share a byte.
ranges_overlap(src_offset, dst_offset, size) ==
    /\ size > 0
    /\ src_offset < dst_offset + size
    /\ dst_offset < src_offset + size

\* mem_copy: both ranges are checked, a nonoverlapping copy must not
\* overlap, then the bytes move with their initialization state and
\* provenance.
mem_copy(m, src, dst, size, nonoverlapping) ==
    LET rs == ptr_try_get_alloc_id_in(m, src)
        rd == ptr_try_get_alloc_id_in(m, dst)
        es == check_ptr_access_in(m, src, size)
        ed == check_ptr_access_in(m, dst, size)
    IN
    IF es # "none" THEN [err |-> es, mem |-> m]
    ELSE IF ed # "none" THEN [err |-> ed, mem |-> m]
    ELSE IF size = 0 THEN [err |-> "none", mem |-> m]
    ELSE IF /\ nonoverlapping
            /\ rs.alloc_id = rd.alloc_id
            /\ ranges_overlap(rs.offset, rd.offset, size)
    THEN [err |-> "copy_nonoverlapping_overlapping", mem |-> m]
    ELSE copy_op(m, src, dst, size)

\* write_bytes_ptr: the range is checked, then filled with initialized bytes
\* without provenance.
write_bytes_ptr(m, dst, byte, len) ==
    LET rd == ptr_try_get_alloc_id_in(m, dst)
        ed == check_ptr_access_in(m, dst, len)
    IN
    IF ed # "none" THEN [err |-> ed, mem |-> m]
    ELSE IF len = 0 THEN [err |-> "none", mem |-> m]
    ELSE [err |-> "none",
          mem |-> [m EXCEPT ![rd.alloc_id].cells =
                      [i \in 1..Len(@) |->
                          IF i - 1 >= rd.offset /\ i - 1 < rd.offset + len
                          THEN Cell(TRUE, byte, NoProv)
                          ELSE @[i]]]]

\* The cells of the n bytes at ptr, once the access has been checked.
range_cells(m, ptr, n) ==
    LET r == ptr_try_get_alloc_id_in(m, ptr) IN
    [i \in 1..n |-> m[r.alloc_id].cells[r.offset + i]]

\* read_bytes_ptr_strip_provenance / get_bytes_strip_provenance: the raw
\* bytes of an accessible, initialized range; provenance is dropped.
read_bytes_ptr_strip_provenance(m, ptr, n) ==
    LET e == check_ptr_access_in(m, ptr, n) IN
    IF e # "none" THEN [err |-> e, bytes |-> << >>]
    ELSE IF n = 0 THEN [err |-> "none", bytes |-> << >>]
    ELSE LET cells == range_cells(m, ptr, n) IN
         IF \E i \in 1..n : ~cells[i].init
         THEN [err |-> "InvalidUninitBytes", bytes |-> << >>]
         ELSE [err |-> "none", bytes |-> [i \in 1..n |-> cells[i].byte]]

\* A comparison that returns the difference of the first two bytes that
\* differ, as memcmp may.
Ord_cmp_difference(l, r) ==
    LET common == IF Len(l) < Len(r) THEN Len(l) ELSE Len(r)
        diffs == {i \in 1..common : l[i] # r[i]}
    IN
    IF diffs # {}
    THEN LET i == CHOOSE k \in diffs : \A j \in diffs : k <= j IN l[i] - r[i]
    ELSE Len(l) - Len(r)

\* Ord::cmp on two byte slices, as -1, 0 or 1: the first difference decides,
\* then the lengths.
Ord_cmp(l, r) ==
    LET common == IF Len(l) < Len(r) THEN Len(l) ELSE Len(r)
        diffs == {i \in 1..common : l[i] # r[i]}
    IN
    IF diffs # {}
    THEN LET i == CHOOSE k \in diffs : \A j \in diffs : k <= j IN
         IF l[i] < r[i] THEN -1 ELSE 1
    ELSE IF Len(l) < Len(r) THEN -1
    ELSE IF Len(l) > Len(r) THEN 1
    ELSE 0

\* What a memory operation returns: the memory it leaves and its outcome.
MemResult(m, o) == [mem |-> m, outcome |-> o]

\* copy_intrinsic reading and checking its pointers before it computes the
\* size.
copy_intrinsic_pointers_first(m, src, dst, count, size, align, nonoverlapping) ==
    LET c == read_operand(count) IN
    IF c.err # "none" THEN MemResult(m, Throw(c.err))
    ELSE LET s == read_operand(src) IN
    IF s.err # "none" THEN MemResult(m, Throw(s.err))
    ELSE LET d == read_operand(dst) IN
    IF d.err # "none" THEN MemResult(m, Throw(d.err))
    ELSE LET as == check_ptr_align_in(m, s.val, align) IN
    IF as # "none" THEN MemResult(m, Throw(as))
    ELSE LET ad == check_ptr_align_in(m, d.val, align) IN
    IF ad # "none" THEN MemResult(m, Throw(ad))
    ELSE LET sz == checked_mul(size, c.val) IN
    IF ~sz.some THEN MemResult(m, Throw("size_overflow"))
    ELSE LET r == mem_copy(m, s.val, d.val, sz.val, nonoverlapping) IN
    IF r.err # "none" THEN MemResult(r.mem, Throw(r.err))
    ELSE MemResult(r.mem, OkUnit)

copy_intrinsic(m, src, dst, count, size, align, nonoverlapping) ==
    LET c == read_operand(count) IN
    IF c.err # "none" THEN MemResult(m, Throw(c.err))
    ELSE LET sz == checked_mul(size, c.val) IN
    IF ~sz.some THEN MemResult(m, Throw("size_overflow"))
    ELSE LET s == read_operand(src) IN
    IF s.err # "none" THEN MemResult(m, Throw(s.err))
    ELSE LET d == read_operand(dst) IN
    IF d.err # "none" THEN MemResult(m, Throw(d.err))
    ELSE LET as == check_ptr_align_in(m, s.val, align) IN
    IF as # "none" THEN MemResult(m, Throw(as))
    ELSE LET ad == check_ptr_align_in(m, d.val, align) IN
    IF ad # "none" THEN MemResult(m, Throw(ad))
    ELSE LET r == mem_copy(m, s.val, d.val, sz.val, nonoverlapping) IN
    IF r.err # "none" THEN MemResult(r.mem, Throw(r.err))
    ELSE MemResult(r.mem, OkUnit)

write_bytes_intrinsic(m, dst, byte, count, size) ==
    LET d == read_operand(dst) IN
    IF d.err # "none" THEN MemResult(m, Throw(d.err))
    ELSE LET b == read_operand(byte) IN
    IF b.err # "none" THEN MemResult(m, Throw(b.err))
    ELSE LET c == read_operand(count) IN
    IF c.err # "none" THEN MemResult(m, Throw(c.err))
    ELSE LET len == checked_mul(size, c.val) IN
    IF ~len.some THEN MemResult(m, Throw("size_overflow"))
    ELSE LET r == write_bytes_ptr(m, d.val, b.val, len.val) IN
    IF r.err # "none" THEN MemResult(r.mem, Throw(r.err))
    ELSE MemResult(r.mem, OkUnit)

compare_bytes_intrinsic(m, left, right, byte_count) ==
    LET l == read_operand(left) IN
    IF l.err # "none" THEN Throw(l.err)
    ELSE LET r == read_operand(right) IN
    IF r.err # "none" THEN Throw(r.err)
    ELSE LET n == read_operand(byte_count) IN
    IF n.err # "none" THEN Throw(n.err)
    ELSE LET left_bytes == read_bytes_ptr_strip_provenance(m, l.val, n.val) IN
    IF left_bytes.err # "none" THEN Throw(left_bytes.err)
    ELSE LET right_bytes == read_bytes_ptr_strip_provenance(m, r.val, n.val) IN
    IF right_bytes.err # "none" THEN Throw(right_bytes.err)
    ELSE OkVal(Ord_cmp(left_bytes.bytes, right_bytes.bytes), 0)

\* get_bytes without the has_provenance test.
get_bytes_ignoring_provenance(m, op, size) ==
    LET p == read_operand(op) IN
    IF p.err # "none" THEN [err |-> p.err, bytes |-> << >>]
    ELSE LET e == check_ptr_access_in(m, p.val, size) IN
    IF e # "none" THEN [err |-> e, bytes |-> << >>]
    ELSE IF size = 0 THEN [err |-> "none", bytes |-> << >>]
    ELSE read_bytes_ptr_strip_provenance(m, p.val, size)

\* The closure get_bytes of raw_eq_intrinsic.
get_bytes(m, op, size) ==
    LET p == read_operand(op) IN
    IF p.err # "none" THEN [err |-> p.err, bytes |-> << >>]
    ELSE LET e == check_ptr_access_in(m, p.val, size) IN
    IF e # "none" THEN [err |-> e, bytes |-> << >>]
    ELSE IF size = 0 THEN [err |-> "none", bytes |-> << >>]
    ELSE IF \E i \in 1..size : range_cells(m, p.val, size)[i].prov # NoProv
    THEN [err |-> "raw_eq_with_provenance", bytes |-> << >>]
    ELSE read_bytes_ptr_strip_provenance(m, p.val, size)

raw_eq_intrinsic(m, lhs, rhs, size) ==
    LET lhs_bytes == get_bytes(m, lhs, size) IN
    IF lhs_bytes.err # "none" THEN Throw(lhs_bytes.err)
    ELSE LET rhs_bytes == get_bytes(m, rhs, size) IN
    IF rhs_bytes.err # "none" THEN Throw(rhs_bytes.err)
    ELSE OkVal(lhs_bytes.bytes = rhs_bytes.bytes, 0)

---------------------------------------------------------------------------
\* The bulk-memory specification: one call on a drawn memory

\* Buffers of MaxLen bytes: all zero; 1, 2, 3, 0..; 1, 2, 4, 0..; the second
\* with a stored pointer's provenance on its third byte; the second with its
\* second byte uninitialized.
ZeroBuf == ZeroCells(MaxLen)
Buf123 == [i \in 1..MaxLen |-> Cell(TRUE, IF i <= 3 THEN i ELSE 0, NoProv)]
Buf124 == [Buf123 EXCEPT ![3] = Cell(TRUE, 4, NoProv)]
BufProv == [Buf123 EXCEPT ![3] = Cell(TRUE, 3, 1)]
BufUninit == [Buf123 EXCEPT ![2] = UninitCell]

BulkBufs == {ZeroBuf, Buf123, Buf124, BufProv, BufUninit}

\* Two live allocations of MaxLen bytes, one right after the other.
BulkMem(c1, c2) ==
    << Alloc(TRUE, MaxLen, MaxLen, c1), Alloc(TRUE, 2 * MaxLen, MaxLen, c2) >>

BulkMems == {BulkMem(c1, c2) : c1 \in BulkBufs, c2 \in BulkBufs}

CopyMems == {BulkMem(c1, ZeroBuf) : c1 \in {Buf123, BufProv, BufUninit}}

\* The pointer into allocation id at byte offset off.
BulkPtr(id, off) == Ptr(id, IF OFFSET_IS_ADDR THEN id * MaxLen + off ELSE off)

\* Pointers into both allocations, up to one byte beyond one past the end,
\* the null pointer and another integer pointer.
BulkPointers ==
    {BulkPtr(id, off) : id \in 1..2, off \in 0..(MaxLen + 1)}
        \cup {NullPtr, Ptr(NoProv, MaxLen + 1)}

PointerOperands == {Operand(p) : p \in BulkPointers} \cup {UnreadablePointer}

\* Element counts: small ones, and the largest isize and usize.
Counts == 0..MaxCount \cup {target_isize_max, max_ptr_plus_1 - 1}
CountOperands == {Operand(n) : n \in Counts} \cup {UnreadableScalar}

\* Layouts of the pointee: size and alignment.
Layout(size, align) == [size |-> size, align |-> align]
Layouts == {Layout(0, 1), Layout(1, 1), Layout(2, 1), Layout(2, 2)}

CopyCalls ==
    {[intrinsic_name |-> nm, src |-> s, dst |-> d, count |-> c, layout |-> l] :
        nm \in {"copy", "copy_nonoverlapping"},
        s \in PointerOperands, d \in PointerOperands,
        c \in CountOperands, l \in Layouts}

WriteBytesCalls ==
    {[intrinsic_name |-> "write_bytes", dst |-> d, byte |-> b, count |-> c, layout |-> l] :
        d \in PointerOperands, b \in {Operand(0), Operand(7), UnreadableScalar},
        c \in CountOperands, l \in Layouts}

CompareBytesCalls ==
    {[intrinsic_name |-> "compare_bytes", left |-> l, right |-> r, byte_count |-> Operand(n)] :
        l \in PointerOperands, r \in PointerOperands, n \in 0..(MaxLen + 1)}

RawEqCalls ==
    {[intrinsic_name |-> "raw_eq", lhs |-> l, rhs |-> r, layout |-> Layout(sz, 1)] :
        l \in PointerOperands, r \in PointerOperands, sz \in 0..MaxLen}

InitMem ==
    /\ OFFSET_IS_ADDR \in BOOLEAN
    /\ \/ mem \in CopyMems /\ (call \in CopyCalls \/ call \in WriteBytesCalls)
       \/ mem \in BulkMems /\ (call \in CompareBytesCalls \/ call \in RawEqCalls)
    /\ outcome = Pending
    /\ dest = Unwritten
    /\ NotRun

Copy ==
    /\ outcome.status = "pending"
    /\ call.intrinsic_name \in {"copy", "copy_nonoverlapping"}
    /\ LET r == copy_intrinsic(mem, call.src, call.dst, call.count,
                               call.layout.size, call.layout.align,
                               call.intrinsic_name = "copy_nonoverlapping")
       IN
       /\ mem' = r.mem
       /\ outcome' = r.outcome
    /\ UNCHANGED <<OFFSET_IS_ADDR, call, dest>>
    /\ UNCHANGED elsewhere

WriteBytes ==
    /\ outcome.status = "pending"
    /\ call.intrinsic_name = "write_bytes"
    /\ LET r == write_bytes_intrinsic(mem, call.dst, call.byte, call.count,
                                      call.layout.size)
       IN
       /\ mem' = r.mem
       /\ outcome' = r.outcome
    /\ UNCHANGED <<OFFSET_IS_ADDR, call, dest>>
    /\ UNCHANGED elsewhere

CompareBytes ==
    /\ outcome.status = "pending"
    /\ call.intrinsic_name = "compare_bytes"
    /\ LET r == compare_bytes_intrinsic(mem, call.left, call.right, call.byte_count) IN
       /\ outcome' = r
       /\ dest' = IF r.status = "ok" THEN Written(r.val) ELSE dest
    /\ UNCHANGED <<OFFSET_IS_ADDR, mem, call>>
    /\ UNCHANGED elsewhere

RawEq ==
    /\ outcome.status = "pending"
    /\ call.intrinsic_name = "raw_eq"
    /\ LET r == raw_eq_intrinsic(mem, call.lhs, call.rhs, call.layout.size) IN
       /\ outcome' = r
       /\ dest' = IF r.status = "ok" THEN Written(r.val) ELSE dest
    /\ UNCHANGED <<OFFSET_IS_ADDR, mem, call>>
    /\ UNCHANGED elsewhere

NextMem == Copy \/ WriteBytes \/ CompareBytes \/ RawEq

SpecMem == InitMem /\ [][NextMem]_vars

---------------------------------------------------------------------------
\* bswap, bitreverse, rotate_left, rotate_right

u128_bits == 8 * WideBytes

\* u128 `<<` and `>>` by less than the width: bits shifted out are lost.
shl(x, n) == (x % 2^(u128_bits - n)) * 2^n
shr(x, n) == x \div 2^n

\* u128 `|`.
RECURSIVE bit_or_upto(_, _, _)
bit_or_upto(x, y, n) ==
    IF n = 0 THEN 0
    ELSE (IF x % 2 = 1 \/ y % 2 = 1 THEN 1 ELSE 0)
            + 2 * bit_or_upto(x \div 2, y \div 2, n - 1)

bit_or(x, y) == bit_or_upto(x, y, u128_bits)

\* u128::swap_bytes.
RECURSIVE swap_bytes_upto(_, _)
swap_bytes_upto(x, n) ==
    IF n = 0 THEN 0
    ELSE (x % 256) * 256^(n - 1) + swap_bytes_upto(x \div 256, n - 1)

swap_bytes(x) == swap_bytes_upto(x, WideBytes)

\* u128::reverse_bits.
RECURSIVE reverse_bits_upto(_, _)
reverse_bits_upto(x, n) ==
    IF n = 0 THEN 0
    ELSE (x % 2) * 2^(n - 1) + reverse_bits_upto(x \div 2, n - 1)

reverse_bits(x) == reverse_bits_upto(x, u128_bits)

\* Scalar::from_uint: the value must fit the size.
from_uint(i, bits) ==
    IF i < 2^bits THEN OkVal(i, 0) ELSE Panic("value does not fit the size")

\* u128::count_ones.
RECURSIVE count_ones_upto(_, _)
count_ones_upto(x, n) ==
    IF n = 0 THEN 0
    ELSE (x % 2) + count_ones_upto(x \div 2, n - 1)

count_ones(x) == count_ones_upto(x, u128_bits)

\* u128::trailing_zeros: the width when no bit is set.
RECURSIVE trailing_zeros_upto(_, _)
trailing_zeros_upto(x, n) ==
    IF n = 0 \/ x % 2 = 1 THEN 0
    ELSE 1 + trailing_zeros_upto(x \div 2, n - 1)

trailing_zeros(x) == trailing_zeros_upto(x, u128_bits)

\* u128::leading_zeros: the width when no bit is set.
RECURSIVE bit_length(_)
bit_length(x) == IF x = 0 THEN 0 ELSE 1 + bit_length(x \div 2)

leading_zeros(x) == u128_bits - bit_length(x)

\* Scalar::to_bits: the raw bits of a scalar of the given size, whatever the
\* sign of the integer it stands for.
to_bits(val, bits) == val % 2^bits

\* u128 `-` followed by Scalar::from_uint: a difference below zero either
\* panics or wraps to a value that does not fit the size.
from_uint_sub(a, b, bits) ==
    IF a < b THEN Panic("attempt to subtract with overflow")
    ELSE from_uint(a - b, bits)

\* numeric_intrinsic swapping and reversing the value where it stands, not
\* left-aligned.
numeric_intrinsic_unaligned(name, bits, layout_bits, ret_layout_bits) ==
    IF layout_bits # ret_layout_bits THEN Panic("assertion failed")
    ELSE from_uint(IF name = "bswap" THEN swap_bytes(bits) ELSE reverse_bits(bits),
                   ret_layout_bits)

\* numeric_intrinsic without the arm that rejects a zero argument of the
\* nonzero variants.
numeric_intrinsic_zero_accepted(name, bits, layout_bits, ret_layout_bits) ==
    LET extra == u128_bits - layout_bits IN
    IF name = "ctpop" THEN from_uint(count_ones(bits), ret_layout_bits)
    ELSE IF name \in {"ctlz", "ctlz_nonzero"}
    THEN from_uint_sub(leading_zeros(bits), extra, ret_layout_bits)
    ELSE from_uint_sub(trailing_zeros(shl(bits, extra)), extra, ret_layout_bits)

\* numeric_intrinsic counting in the 128-bit working width without
\* subtracting the padding.
numeric_intrinsic_padding_kept(name, bits, layout_bits, ret_layout_bits) ==
    LET extra == u128_bits - layout_bits IN
    IF name = "ctpop" THEN from_uint(count_ones(bits), ret_layout_bits)
    ELSE IF name \in {"ctlz_nonzero", "cttz_nonzero"} /\ bits = 0
    THEN Throw("call_nonzero_intrinsic")
    ELSE IF name \in {"ctlz", "ctlz_nonzero"}
    THEN from_uint(leading_zeros(bits), ret_layout_bits)
    ELSE from_uint(trailing_zeros(shl(bits, extra)), ret_layout_bits)

\* numeric_intrinsic.
numeric_intrinsic(name, bits, layout_bits, ret_layout_bits) ==
    LET extra == u128_bits - layout_bits IN
    IF name = "ctpop" THEN from_uint(count_ones(bits), ret_layout_bits)
    ELSE IF name \in {"ctlz_nonzero", "cttz_nonzero"} /\ bits = 0
    THEN Throw("call_nonzero_intrinsic")
    ELSE IF name \in {"ctlz", "ctlz_nonzero"}
    THEN from_uint_sub(leading_zeros(bits), extra, ret_layout_bits)
    ELSE IF name \in {"cttz", "cttz_nonzero"}
    THEN from_uint_sub(trailing_zeros(shl(bits, extra)), extra, ret_layout_bits)
    ELSE IF name = "bswap"
    THEN IF layout_bits # ret_layout_bits THEN Panic("assertion failed")
         ELSE from_uint(swap_bytes(shl(bits, extra)), ret_layout_bits)
    ELSE IF name = "bitreverse"
    THEN IF layout_bits # ret_layout_bits THEN Panic("assertion failed")
         ELSE from_uint(reverse_bits(shl(bits, extra)), ret_layout_bits)
    ELSE Panic("not a numeric intrinsic")

\* InterpCx::truncate: the low bits of the layout's size.
truncate(x, layout_bits) == x % 2^layout_bits

\* The rotations with the raw shift, not reduced modulo the width of x.
rotate_unreduced(name, val_bits, raw_shift_bits, width_bits) ==
    LET shift_bits == raw_shift_bits
        inv_shift_bits == (width_bits - shift_bits) % width_bits
        result_bits ==
            IF name = "rotate_left"
            THEN bit_or(shl(val_bits, shift_bits % u128_bits), shr(val_bits, inv_shift_bits))
            ELSE bit_or(shr(val_bits, shift_bits), shl(val_bits, inv_shift_bits))
    IN from_uint(truncate(result_bits, width_bits), width_bits)

\* The arm of emulate_intrinsic for rotate_left and rotate_right.
rotate(name, val_bits, raw_shift_bits, width_bits) ==
    LET shift_bits == raw_shift_bits % width_bits
        inv_shift_bits == (width_bits - shift_bits) % width_bits
        result_bits ==
            IF name = "rotate_left"
            THEN bit_or(shl(val_bits, shift_bits), shr(val_bits, inv_shift_bits))
            ELSE bit_or(shr(val_bits, shift_bits), shl(val_bits, inv_shift_bits))
        truncated_bits == truncate(result_bits, width_bits)
    IN from_uint(truncated_bits, width_bits)

---------------------------------------------------------------------------
\* The bit-operation specification: one bswap, bitreverse, ctpop, ctlz, cttz,
\* ctlz_nonzero, cttz_nonzero, rotate_left or rotate_right on a drawn value

\* Widths of the integer types drawn.
IntWidths == {8, 16}

\* The bit patterns of an integer type.
BitPatterns(bits) == 0..(2^bits - 1)

\* Bytes drawn for the values that are rotated when the type is wider than
\* 8 bits.
ByteSample == {0, 1, 2, 3, 18, 52, 85, 127, 128, 170, 195, 240, 254, 255}

RotateOperands(bits) ==
    IF bits = 8 THEN BitPatterns(bits)
    ELSE {hi * 256 + lo : hi \in ByteSample, lo \in ByteSample}

\* The names of the arm of emulate_intrinsic that calls numeric_intrinsic:
\* those that reorder the bits and those that count them.
ReorderNames == {"bswap", "bitreverse"}
CountNames == {"ctpop", "cttz", "cttz_nonzero", "ctlz", "ctlz_nonzero"}
NumericNames == ReorderNames \cup CountNames
RotateNames == {"rotate_left", "rotate_right"}

NumericCall(name, val, bits) ==
    [intrinsic_name |-> name, val |-> val, bits |-> bits, ret_bits |-> bits]

\* The integers of a type whose bit patterns are drawn for the counts.
ScalarOperands(signed, bits) ==
    {from_bits(x, signed, bits) : x \in RotateOperands(bits)}

\* A call of a counting intrinsic: the argument as the integer it stands for,
\* and the width of the destination.
CountCall(name, val, signed, bits, ret_bits) ==
    [intrinsic_name |-> name, val |-> val, signed |-> signed, bits |-> bits,
     ret_bits |-> ret_bits]

RotateCall(name, val, raw_shift, bits) ==
    [intrinsic_name |-> name, val |-> val, raw_shift |-> raw_shift, bits |-> bits]

InitBits ==
    /\ OFFSET_IS_ADDR = FALSE
    /\ mem = << >>
    /\ \/ \E nm \in ReorderNames, w \in IntWidths :
             \E x \in BitPatterns(w) : call = NumericCall(nm, x, w)
       \/ \E nm \in CountNames, w \in IntWidths, sg \in BOOLEAN, rw \in IntWidths :
             \E x \in ScalarOperands(sg, w) : call = CountCall(nm, x, sg, w, rw)
       \/ \E nm \in RotateNames, w \in IntWidths :
             \E x \in RotateOperands(w), sh \in 0..MaxShift :
                 call = RotateCall(nm, x, sh, w)
    /\ outcome = Pending
    /\ dest = Unwritten
    /\ NotRun

EmulateNumeric ==
    /\ outcome.status = "pending"
    /\ call.intrinsic_name \in NumericNames
    /\ LET r == numeric_intrinsic(call.intrinsic_name, to_bits(call.val, call.bits),
                                  call.bits, call.ret_bits) IN
       /\ outcome' = r
       /\ dest' = IF r.status = "ok" THEN Written(r.val) ELSE dest
    /\ UNCHANGED <<OFFSET_IS_ADDR, mem, call>>
    /\ UNCHANGED elsewhere

EmulateRotate ==
    /\ outcome.status = "pending"
    /\ call.intrinsic_name \in RotateNames
    /\ LET r == rotate(call.intrinsic_name, call.val, call.raw_shift, call.bits) IN
       /\ outcome' = r
       /\ dest' = IF r.status = "ok" THEN Written(r.val) ELSE dest
    /\ UNCHANGED <<OFFSET_IS_ADDR, mem, call>>
    /\ UNCHANGED elsewhere

NextBits == EmulateNumeric \/ EmulateRotate

SpecBits == InitBits /\ [][NextBits]_vars

---------------------------------------------------------------------------
\* The arithmetic specification: one saturating_add, saturating_sub or
\* exact_div on drawn operands

\* The values of an integer type.
IntRange(signed, bits) ==
    IF signed
    THEN size_signed_int_min(bits)..size_signed_int_max(bits)
    ELSE 0..size_unsigned_int_max(bits)

\* The operands drawn for a type: all its values when it is 8 bits wide,
\* else those near the ends of its range, near zero and near the middle.
IntOperands(signed, bits) ==
    IF bits = 8 THEN IntRange(signed, bits)
    ELSE LET lo == IF signed THEN size_signed_int_min(bits) ELSE 0
             hi == IF signed THEN size_signed_int_max(bits)
                   ELSE size_unsigned_int_max(bits)
             mid == hi \div 2
         IN {x \in UNION {(lo..(lo + 2)), ((hi - 2)..hi), (-3..3),
                          ((mid - 1)..(mid + 1)), {10, 20, 50, 100}}
                 : lo <= x /\ x <= hi}

ArithCall(name, l, r, signed, bits) ==
    [intrinsic_name |-> name, l |-> l, r |-> r, signed |-> signed, bits |-> bits]

SaturatingNames == {"saturating_add", "saturating_sub"}

InitArith ==
    /\ OFFSET_IS_ADDR = FALSE
    /\ mem = << >>
    /\ \E nm \in SaturatingNames \cup {"exact_div"}, sg \in BOOLEAN, w \in IntWidths :
          \E l \in IntOperands(sg, w), r \in IntOperands(sg, w) :
              call = ArithCall(nm, l, r, sg, w)
    /\ outcome = Pending
    /\ dest = Unwritten
    /\ NotRun

EmulateSaturating ==
    /\ outcome.status = "pending"
    /\ call.intrinsic_name \in SaturatingNames
    /\ LET val == saturating_arith(
                     IF call.intrinsic_name = "saturating_add" THEN "Add" ELSE "Sub",
                     call.l, call.r, call.signed, call.bits)
       IN
       /\ outcome' = OkVal(val, 0)
       /\ dest' = Written(val)
    /\ UNCHANGED <<OFFSET_IS_ADDR, mem, call>>
    /\ UNCHANGED elsewhere

EmulateExactDiv ==
    /\ outcome.status = "pending"
    /\ call.intrinsic_name = "exact_div"
    /\ LET q == exact_div(call.l, call.r, call.signed, call.bits) IN
       IF q.err # "none"
       THEN outcome' = Throw(q.err) /\ dest' = dest
       ELSE outcome' = OkVal(q.val, 0) /\ dest' = Written(q.val)
    /\ UNCHANGED <<OFFSET_IS_ADDR, mem, call>>
    /\ UNCHANGED elsewhere

NextArith == EmulateSaturating \/ EmulateExactDiv

SpecArith == InitArith /\ [][NextArith]_vars

---------------------------------------------------------------------------
\* emulate_intrinsic: the match on the intrinsic's name, then return_to_block

\* What emulate_intrinsic returns when nothing failed: Ok(true) and Ok(false).
Handled == Outcome("ok", "none", 0, NullPtr, FALSE, 0)
Unhandled == Outcome("unhandled", "none", 0, NullPtr, FALSE, 0)

\* What a step of emulate_intrinsic works on: the result it has so far, the
\* destination, the memory and the interpreter's position.
EvalState(o, d, m, e) == [outcome |-> o, dest |-> d, mem |-> m, ecx |-> e]

\* Leaving emulate_intrinsic with a `return` or a `?`.
Exit(st, o) == [st EXCEPT !.outcome = o, !.ecx.pc = "done"]

\* Leaving the match for the statements after it.
AfterMatch(st) == [st EXCEPT !.ecx.pc = "return_to_block"]

AssertNames == {"assert_inhabited", "assert_zero_valid", "assert_mem_uninitialized_valid"}

\* ValidityRequirement::from_intrinsic.
from_intrinsic(name) ==
    CASE name = "assert_inhabited" -> "Inhabited"
      [] name = "assert_zero_valid" -> "Zero"
      [] name = "assert_mem_uninitialized_valid" -> "UninitMitigated0x01Fill"

\* What the layout engine knows of a type: whether its layout can be computed
\* at all and, when it can, whether the type is uninhabited, whether all-zero
\* bytes are a valid value and whether it may be left uninitialized.
Ty(known, uninhabited, zero_valid, uninit_valid) ==
    [known |-> known, uninhabited |-> uninhabited, zero_valid |-> zero_valid,
     uninit_valid |-> uninit_valid]

\* tcx.check_validity_requirement: an error when the layout cannot be computed.
check_validity_requirement(requirement, ty) ==
    IF ~ty.known THEN [ok |-> FALSE, val |-> FALSE]
    ELSE [ok |-> TRUE,
          val |-> CASE requirement = "Inhabited" -> ~ty.uninhabited
                    [] requirement = "Zero" -> ty.zero_valid
                    [] requirement = "UninitMitigated0x01Fill" -> ty.uninit_valid]

UninhabitedMsg == "aborted execution: attempted to instantiate uninhabited type"
ZeroMsg == "aborted execution: attempted to zero-initialize type, which is invalid"
UninitMsg == "aborted execution: attempted to leave type uninitialized, which is invalid"

\* The message chosen by the requirement alone, uninhabited or not.
validity_msg_by_requirement(requirement, ty) ==
    CASE requirement = "Inhabited" -> [bug |-> FALSE, text |-> UninhabitedMsg]
      [] requirement = "Zero" -> [bug |-> FALSE, text |-> ZeroMsg]
      [] requirement = "UninitMitigated0x01Fill" -> [bug |-> FALSE, text |-> UninitMsg]

\* The `match requirement` that builds the message of a failed assertion.
validity_msg(requirement, ty) ==
    IF ty.uninhabited THEN [bug |-> FALSE, text |-> UninhabitedMsg]
    ELSE CASE requirement = "Inhabited" -> [bug |-> TRUE, text |-> "handled earlier"]
           [] requirement = "Zero" -> [bug |-> FALSE, text |-> ZeroMsg]
           [] requirement = "UninitMitigated0x01Fill" -> [bug |-> FALSE, text |-> UninitMsg]

\* M::panic_nounwind: the machine is told the message; a machine that
\* evaluates constants reports the panic as an error, one that runs the
\* program starts the panic and returns.
panic_nounwind(st, msg, panic_returns) ==
    LET told == [st EXCEPT !.ecx.panics = Append(@, msg)] IN
    [st |-> told, err |-> IF panic_returns THEN "none" ELSE "Panic"]

\* The assertion arm going on to the statements after the match once the
\* machine's panic hook has returned.
assert_arm_returning_after_panic(c, st) ==
    LET requirement == from_intrinsic(c.intrinsic_name)
        valid == check_validity_requirement(requirement, c.ty)
    IN
    IF ~valid.ok THEN Exit(st, Throw("TooGeneric"))
    ELSE IF ~valid.val
    THEN LET msg == validity_msg(requirement, c.ty) IN
         IF msg.bug THEN Exit(st, Panic(msg.text))
         ELSE LET p == panic_nounwind(st, msg.text, c.panic_returns) IN
              IF p.err # "none" THEN Exit(p.st, Throw(p.err))
              ELSE AfterMatch(p.st)
    ELSE AfterMatch(st)

\* The arm of assert_inhabited, assert_zero_valid and
\* assert_mem_uninitialized_valid.
assert_arm(c, st) ==
    LET requirement == from_intrinsic(c.intrinsic_name)
        valid == check_validity_requirement(requirement, c.ty)
        should_panic == ~valid.val
    IN
    IF ~valid.ok THEN Exit(st, Throw("TooGeneric"))
    ELSE IF should_panic
    THEN LET msg == validity_msg(requirement, c.ty) IN
         IF msg.bug THEN Exit(st, Panic(msg.text))
         ELSE LET p == panic_nounwind(st, msg.text, c.panic_returns) IN
              IF p.err # "none" THEN Exit(p.st, Throw(p.err))
              ELSE Exit(p.st, Handled)
    ELSE AfterMatch(st)

\* The arm of ctpop, cttz, cttz_nonzero, ctlz, ctlz_nonzero, bswap and
\* bitreverse.
numeric_arm(c, st) ==
    LET out_val == numeric_intrinsic(c.intrinsic_name, to_bits(c.val, c.bits),
                                     c.bits, c.ret_bits)
    IN
    IF out_val.status # "ok" THEN Exit(st, out_val)
    ELSE AfterMatch([st EXCEPT !.dest = Written(out_val.val)])

\* The arm of exact_div.
exact_div_arm(c, st) ==
    LET q == exact_div(c.l, c.r, c.signed, c.bits) IN
    IF q.err # "none" THEN Exit(st, Throw(q.err))
    ELSE AfterMatch([st EXCEPT !.dest = Written(q.val)])

\* The arm of black_box: the argument is copied to the destination.
black_box_arm(c, st) == AfterMatch([st EXCEPT !.dest = Written(c.val)])

\* The arm of typed_swap, which returns the unit value.
typed_swap_arm(c, st) ==
    LET r == typed_swap_intrinsic(st.mem, c.a, c.b, c.pointee_size) IN
    IF r.outcome.status # "ok" THEN Exit([st EXCEPT !.mem = r.mem], r.outcome)
    ELSE AfterMatch([st EXCEPT !.mem = r.mem])

\* The last arm going on to the statements after the match.
unsupported_arm_falling_through(st) == AfterMatch(st)

\* The last arm, of every name that is not matched: `_ => return Ok(false)`.
unsupported_arm(st) == Exit(st, Unhandled)

\* The match of emulate_intrinsic, for the arms that are modelled.
emulate_intrinsic(c, st) ==
    CASE c.intrinsic_name \in NumericNames -> numeric_arm(c, st)
      [] c.intrinsic_name = "exact_div" -> exact_div_arm(c, st)
      [] c.intrinsic_name \in AssertNames -> assert_arm(c, st)
      [] c.intrinsic_name = "black_box" -> black_box_arm(c, st)
      [] c.intrinsic_name = "typed_swap" -> typed_swap_arm(c, st)
      [] OTHER -> unsupported_arm(st)

\* return_to_block: the frame goes to the block, or the call has none and
\* returning is undefined behaviour.
return_to_block(ret, st) ==
    IF ret
    THEN [st EXCEPT !.ecx.loc = "ret", !.ecx.returns = @ + 1,
                    !.ecx.pc = "done", !.outcome = Handled]
    ELSE Exit(st, Throw("Unreachable"))

---------------------------------------------------------------------------
\* The dispatch specification: one emulate_intrinsic call on a drawn name
\* and drawn arguments

\* The types drawn: one whose layout is not known, the uninhabited one, and
\* the inhabited ones.
Tys ==
    {Ty(FALSE, FALSE, FALSE, FALSE), Ty(TRUE, TRUE, FALSE, FALSE)}
        \cup {Ty(TRUE, FALSE, z, u) : z \in BOOLEAN, u \in BOOLEAN}

\* Names with no arm in emulate_intrinsic.
UnsupportedNames == {"sqrtf64", "volatile_load", "atomic_fence_seqcst"}

\* Memories of the dispatch specification: the first allocation drawn.
DispatchMems ==
    {<< Alloc(TRUE, 1, 2, <<c1, c2>>), Alloc(TRUE, 3, 2, <<Cell(TRUE, 1, NoProv), UninitCell>>) >> :
        c1 \in SwapCells, c2 \in SwapCells}

\* Operands of exact_div in the dispatch specification.
DispatchOperands(signed) ==
    IF signed THEN {-128, -6, -1, 0, 1, 2, 3, 6, 127} ELSE {0, 1, 2, 3, 6, 255}

AssertCall(name, ty, panic_returns, ret) ==
    [intrinsic_name |-> name, ty |-> ty, panic_returns |-> panic_returns, ret |-> ret]

UnsupportedCall(name, ret) == [intrinsic_name |-> name, ret |-> ret]

DispatchNumericCall(name, val, ret) ==
    [intrinsic_name |-> name, val |-> val, bits |-> 8, ret_bits |-> 8, ret |-> ret]

DispatchExactDivCall(l, r, signed, ret) ==
    [intrinsic_name |-> "exact_div", l |-> l, r |-> r, signed |-> signed,
     bits |-> 8, ret |-> ret]

BlackBoxCall(val, ret) == [intrinsic_name |-> "black_box", val |-> val, ret |-> ret]

DispatchSwapCall(a, b, size, ret) ==
    [intrinsic_name |-> "typed_swap", a |-> a, b |-> b, pointee_size |-> size,
     ret |-> ret]

InitDispatch ==
    /\ OFFSET_IS_ADDR = FALSE
    /\ outcome = Pending
    /\ NotRun
    /\ \/ /\ mem \in DispatchMems
          /\ dest \in {Unwritten, Written(1)}
          /\ \E nm \in UnsupportedNames, ret \in BOOLEAN :
                call = UnsupportedCall(nm, ret)
       \/ /\ mem \in DispatchMems
          /\ dest = Unwritten
          /\ \E a \in SwapPointers, b \in SwapPointers, sz \in 1..MaxSwapSize, ret \in BOOLEAN :
                call = DispatchSwapCall(a, b, sz, ret)
       \/ /\ mem = PtrMem
          /\ dest = Unwritten
          /\ \/ \E nm \in AssertNames, ty \in Tys, pr \in BOOLEAN, ret \in BOOLEAN :
                   call = AssertCall(nm, ty, pr, ret)
             \/ \E nm \in NumericNames, x \in BitPatterns(8), ret \in BOOLEAN :
                   call = DispatchNumericCall(nm, x, ret)
             \/ \E sg \in BOOLEAN, ret \in BOOLEAN :
                   \E l \in DispatchOperands(sg), r \in DispatchOperands(sg) :
                       call = DispatchExactDivCall(l, r, sg, ret)
             \/ \E x \in 0..3, ret \in BOOLEAN : call = BlackBoxCall(x, ret)

\* emulate_intrinsic up to the end of its match.
EmulateIntrinsic ==
    /\ ecx.pc = "match"
    /\ LET st == emulate_intrinsic(call, EvalState(outcome, dest, mem, ecx)) IN
       /\ outcome' = st.outcome
       /\ dest' = st.dest
       /\ mem' = st.mem
       /\ ecx' = st.ecx
    /\ UNCHANGED <<OFFSET_IS_ADDR, call, buffer, ctx>>

\* The statements of emulate_intrinsic after its match.
ReturnToBlock ==
    /\ ecx.pc = "return_to_block"
    /\ LET st == return_to_block(call.ret, EvalState(outcome, dest, mem, ecx)) IN
       /\ outcome' = st.outcome
       /\ dest' = st.dest
       /\ mem' = st.mem
       /\ ecx' = st.ecx
    /\ UNCHANGED <<OFFSET_IS_ADDR, call, buffer, ctx>>

NextDispatch == EmulateIntrinsic \/ ReturnToBlock

SpecDispatch == InitDispatch /\ [][NextDispatch]_vars

---------------------------------------------------------------------------
\* Buffer, the buffer management of BufReader

usize_MAX == 2^UsizeBits - 1

\* What a method of Buffer returned: how it ended, the bool of consume_with,
\* the slice of fill_buf or the bytes shown to the visitor of consume_with,
\* and whether the reader was invoked.
BufOutcome(status, taken, bytes, read) ==
    [status |-> status, taken |-> taken, bytes |-> bytes, read |-> read]

\* Buffer::with_capacity.
with_capacity(capacity) ==
    [buf |-> [i \in 1..capacity |-> UninitCell], pos |-> 0, filled |-> 0,
     initialized |-> 0]

\* Buffer::capacity.
capacity(b) == Len(b.buf)

\* Buffer::buffer: the bytes pos..filled, taken without a bounds check and
\* assumed initialized.
buffer_slice(b) ==
    IF b.pos <= b.filled /\ b.filled <= Len(b.buf)
          /\ \A i \in (b.pos + 1)..b.filled : b.buf[i].init
    THEN [ub |-> FALSE, bytes |-> [i \in 1..(b.filled - b.pos) |-> b.buf[b.pos + i].byte]]
    ELSE [ub |-> TRUE, bytes |-> << >>]

\* discard_buffer forgetting what is initialized as well.
discard_buffer_forgetting_initialized(b) ==
    [buffer |-> [b EXCEPT !.pos = 0, !.filled = 0, !.initialized = 0],
     outcome |-> BufOutcome("ok", FALSE, << >>, FALSE)]

\* Buffer::discard_buffer.
discard_buffer(b) ==
    [buffer |-> [b EXCEPT !.pos = 0, !.filled = 0],
     outcome |-> BufOutcome("ok", FALSE, << >>, FALSE)]

\* consume without the clamp to `filled`.
consume_unclamped(b, amt, overflow_checks) ==
    IF b.pos + amt > usize_MAX /\ overflow_checks
    THEN [buffer |-> b, outcome |-> BufOutcome("panic", FALSE, << >>, FALSE)]
    ELSE [buffer |-> [b EXCEPT !.pos = (b.pos + amt) % 2^UsizeBits],
          outcome |-> BufOutcome("ok", FALSE, << >>, FALSE)]

\* Buffer::consume. The sum pos + amt of two usize panics when it overflows
\* in a build with overflow checks and wraps in one without.
consume(b, amt, overflow_checks) ==
    IF b.pos + amt > usize_MAX /\ overflow_checks
    THEN [buffer |-> b, outcome |-> BufOutcome("panic", FALSE, << >>, FALSE)]
    ELSE LET sum == (b.pos + amt) % 2^UsizeBits
             min == IF sum <= b.filled THEN sum ELSE b.filled
         IN [buffer |-> [b EXCEPT !.pos = min],
             outcome |-> BufOutcome("ok", FALSE, << >>, FALSE)]

\* Buffer::consume_with: `self.buffer().get(..amt)` is Some when amt is at
\* most the length of the slice.
consume_with(b, amt) ==
    LET slice == buffer_slice(b) IN
    IF slice.ub THEN [buffer |-> b, outcome |-> BufOutcome("ub", FALSE, << >>, FALSE)]
    ELSE IF amt <= Len(slice.bytes)
    THEN [buffer |-> [b EXCEPT !.pos = b.pos + amt],
          outcome |-> BufOutcome("ok", TRUE, SubSeq(slice.bytes, 1, amt), FALSE)]
    ELSE [buffer |-> b, outcome |-> BufOutcome("ok", FALSE, << >>, FALSE)]

\* Buffer::unconsume: usize::saturating_sub.
unconsume(b, amt) ==
    [buffer |-> [b EXCEPT !.pos = IF amt > b.pos THEN 0 ELSE b.pos - amt],
     outcome |-> BufOutcome("ok", FALSE, << >>, FALSE)]

\* BorrowedBuf::from a slice of MaybeUninit: nothing filled, nothing known
\* to be initialized.
BorrowedBuf_from(cells) == [cells |-> cells, filled |-> 0, init |-> 0]

\* BorrowedBuf::set_init: the first n bytes are asserted initialized.
set_init(bb, n) == [bb EXCEPT !.init = IF n > @ THEN n ELSE @]

\* A reader: the bytes it appends to the cursor it is handed, whether it
\* initializes the whole buffer first, and whether it then fails.
Reader(data, ensure_init, fails) ==
    [data |-> data, ensure_init |-> ensure_init, fails |-> fails]

\* Read::read_buf on the unfilled part of a BorrowedBuf: the reader can only
\* grow the filled and the initialized prefix.
read_buf(reader, bb) ==
    LET n == Len(reader.data)
        whole == Len(bb.cells)
        zeroed == [i \in 1..whole |->
                     IF reader.ensure_init /\ i > bb.init
                     THEN Cell(TRUE, 0, NoProv) ELSE bb.cells[i]]
        cells == [i \in 1..whole |->
                    IF i > bb.filled /\ i <= bb.filled + n
                    THEN Cell(TRUE, reader.data[i - bb.filled], NoProv)
                    ELSE zeroed[i]]
        init0 == IF reader.ensure_init THEN whole ELSE bb.init
        filled == bb.filled + n
    IN [buf |-> [cells |-> cells, filled |-> filled,
                 init |-> IF filled > init0 THEN filled ELSE init0],
        err |-> reader.fails]

\* fill_buf reading from the reader whether or not bytes are left unread.
fill_buf_always_reading(b, reader, debug_assertions) ==
    LET buf == set_init(BorrowedBuf_from(b.buf), b.initialized)
        rd == read_buf(reader, buf)
        stored == [b EXCEPT !.buf = rd.buf.cells]
    IN
    IF rd.err
    THEN [buffer |-> stored, outcome |-> BufOutcome("err", FALSE, << >>, TRUE)]
    ELSE LET refilled == [stored EXCEPT !.pos = 0, !.filled = rd.buf.filled,
                                        !.initialized = rd.buf.init]
         IN [buffer |-> refilled,
             outcome |-> BufOutcome("ok", FALSE, buffer_slice(refilled).bytes, TRUE)]

\* Buffer::fill_buf.
fill_buf(b, reader, debug_assertions) ==
    IF b.pos >= b.filled
    THEN IF debug_assertions /\ b.pos # b.filled
         THEN [buffer |-> b, outcome |-> BufOutcome("panic", FALSE, << >>, FALSE)]
         ELSE LET buf == set_init(BorrowedBuf_from(b.buf), b.initialized)
                  rd == read_buf(reader, buf)
                  stored == [b EXCEPT !.buf = rd.buf.cells]
              IN
              IF rd.err
              THEN [buffer |-> stored, outcome |-> BufOutcome("err", FALSE, << >>, TRUE)]
              ELSE LET refilled == [stored EXCEPT !.pos = 0, !.filled = rd.buf.filled,
                                                  !.initialized = rd.buf.init]
                       slice == buffer_slice(refilled)
                   IN [buffer |-> refilled,
                       outcome |-> BufOutcome(IF slice.ub THEN "ub" ELSE "ok", FALSE,
                                              slice.bytes, TRUE)]
    ELSE LET slice == buffer_slice(b) IN
         [buffer |-> b,
          outcome |-> BufOutcome(IF slice.ub THEN "ub" ELSE "ok", FALSE, slice.bytes, FALSE)]

---------------------------------------------------------------------------
\* The Buffer specification: a Buffer of a drawn capacity under any sequence
\* of fill_buf, consume, consume_with, unconsume and discard_buffer

\* The bytes a reader produces.
ReaderBytes == {1, 2}

\* The byte strings of at most n bytes.
ByteStrings(n) == UNION {[1..k -> ReaderBytes] : k \in 0..n}

\* The amounts passed to consume, consume_with and unconsume.
Amounts == 0..usize_MAX

BufferCall(method, amt, reader) == [method |-> method, amt |-> amt, reader |-> reader]

NoReader == Reader(<< >>, FALSE, FALSE)

InitBuffer ==
    /\ OFFSET_IS_ADDR = FALSE
    /\ mem = << >>
    /\ dest = Unwritten
    /\ ecx = AtCallSite
    /\ ctx = NoCtx
    /\ \E c \in 0..MaxCapacity :
          /\ buffer = with_capacity(c)
          /\ call = BufferCall("with_capacity", c, NoReader)
    /\ outcome = BufOutcome("ok", FALSE, << >>, FALSE)

\* A method of Buffer has run as the call says, with the given result.
Ran(c, r) ==
    /\ call' = c
    /\ buffer' = r.buffer
    /\ outcome' = r.outcome
    /\ UNCHANGED <<OFFSET_IS_ADDR, mem, dest, ecx, ctx>>

DiscardBuffer == Ran(BufferCall("discard_buffer", 0, NoReader), discard_buffer(buffer))

Consume ==
    \E amt \in Amounts, overflow_checks \in BOOLEAN :
        Ran(BufferCall("consume", amt, NoReader), consume(buffer, amt, overflow_checks))

ConsumeWith ==
    \E amt \in Amounts :
        Ran(BufferCall("consume_with", amt, NoReader), consume_with(buffer, amt))

Unconsume ==
    \E amt \in Amounts :
        Ran(BufferCall("unconsume", amt, NoReader), unconsume(buffer, amt))

FillBuf ==
    \E data \in ByteStrings(capacity(buffer)), ensure_init \in BOOLEAN,
       fails \in BOOLEAN, debug_assertions \in BOOLEAN :
        Ran(BufferCall("fill_buf", 0, Reader(data, ensure_init, fails)),
            fill_buf(buffer, Reader(data, ensure_init, fails), debug_assertions))

NextBuffer == DiscardBuffer \/ Consume \/ ConsumeWith \/ Unconsume \/ FillBuf

SpecBuffer == InitBuffer /\ [][NextBuffer]_vars

---------------------------------------------------------------------------
\* The transcriber of macro-by-example templates

\* tt::TokenTree: a leaf with its text, or a subtree with its delimiter ("" for
\* none) and its token trees.
Leaf(text) == [leaf |-> TRUE, text |-> text, token_trees |-> << >>]
Subtree(delimiter, token_trees) ==
    [leaf |-> FALSE, text |-> delimiter, token_trees |-> token_trees]

\* Fragment::Tokens and Fragment::Ast.
Fragment(tokens, tt) == [tokens |-> tokens, tt |-> tt]

\* Binding::Fragment, Binding::Nested and Binding::Empty.
BindingFragment(tt) == [kind |-> "Fragment", fragment |-> Fragment(TRUE, tt), nested |-> << >>]
BindingNested(bs) == [kind |-> "Nested", fragment |-> Fragment(TRUE, Leaf("")), nested |-> bs]
BindingEmpty == [kind |-> "Empty", fragment |-> Fragment(TRUE, Leaf("")), nested |-> << >>]

\* The ops of a parsed template: Op::TokenTree of a leaf or of a subtree,
\* Op::Var and Op::Repeat. A separator is the sequence of its tokens, empty
\* for none.
OpLeaf(text) ==
    [op |-> "Leaf", text |-> text, subtree |-> << >>, kind |-> "", separator |-> << >>]
OpSubtree(delimiter, ops) ==
    [op |-> "Subtree", text |-> delimiter, subtree |-> ops, kind |-> "", separator |-> << >>]
OpVar(name) ==
    [op |-> "Var", text |-> name, subtree |-> << >>, kind |-> "", separator |-> << >>]
OpRepeat(ops, kind, separator) ==
    [op |-> "Repeat", text |-> "", subtree |-> ops, kind |-> kind, separator |-> separator]

NestingState(idx, hit, at_end) == [idx |-> idx, hit |-> hit, at_end |-> at_end]

\* What expand_subtree, expand_var and expand_repeat give back: the nesting
\* stack as they leave it, the error if any, the token trees produced, and
\* for the loops run inside, the largest number of iterations of one loop.
Expanded(nesting, err, token_trees, most) ==
    [nesting |-> nesting, err |-> err, token_trees |-> token_trees, most |-> most]

Max(a, b) == IF a >= b THEN a ELSE b

\* Bindings::get from the i-th nesting state on, with the binding reached.
RECURSIVE Bindings_get_from(_, _, _)
Bindings_get_from(b, nesting, i) ==
    IF i > Len(nesting)
    THEN [nesting |-> nesting,
          err |-> IF b.kind = "Fragment" THEN "none" ELSE "BindingError",
          fragment |-> b.fragment]
    ELSE LET hit == [nesting EXCEPT ![i].hit = TRUE]
             at_end == [hit EXCEPT ![i].at_end = TRUE]
         IN
         IF b.kind = "Fragment"
         THEN [nesting |-> hit, err |-> "none", fragment |-> b.fragment]
         ELSE IF b.kind = "Nested"
         THEN IF nesting[i].idx < Len(b.nested)
              THEN Bindings_get_from(b.nested[nesting[i].idx + 1], hit, i + 1)
              ELSE [nesting |-> at_end, err |-> "BindingError", fragment |-> b.fragment]
         ELSE [nesting |-> at_end, err |-> "BindingError", fragment |-> b.fragment]

\* Bindings::contains and Bindings::get.
Bindings_contains(bindings, name) == name \in DOMAIN bindings

Bindings_get(bindings, name, nesting) ==
    IF ~Bindings_contains(bindings, name)
    THEN [nesting |-> nesting, err |-> "BindingError", fragment |-> Fragment(TRUE, Leaf(""))]
    ELSE Bindings_get_from(bindings[name], nesting, 1)

\* push_subtree and push_fragment.
push_subtree(buf, tt) ==
    IF tt.text = "" THEN buf \o tt.token_trees ELSE Append(buf, tt)

push_fragment(buf, fragment) ==
    IF fragment.tokens /\ ~fragment.tt.leaf
    THEN push_subtree(buf, fragment.tt)
    ELSE Append(buf, fragment.tt)

\* expand_var.
expand_var(c, v) ==
    IF v = "crate"
    THEN [nesting |-> c.nesting, err |-> "none", fragment |-> Fragment(TRUE, Leaf("$crate"))]
    ELSE IF ~Bindings_contains(c.bindings, v)
    THEN [nesting |-> c.nesting, err |-> "none",
          fragment |-> Fragment(TRUE, Subtree("", <<Leaf("$"), Leaf(v)>>))]
    ELSE Bindings_get(c.bindings, v, c.nesting)

\* Vec::pop, n times.
RECURSIVE pop_n(_, _)
pop_n(buf, n) ==
    IF n = 0 \/ buf = << >> THEN buf ELSE pop_n(SubSeq(buf, 1, Len(buf) - 1), n - 1)

\* What the loop of expand_repeat has in hand: the context, buf, has_seps,
\* counter, the number of iterations begun, the largest number of iterations
\* of a loop run inside, and the repetitions pushed to buf so far.
LoopState(c, buf, has_seps, counter, iterations, most, emitted) ==
    [ctx |-> c, buf |-> buf, has_seps |-> has_seps, counter |-> counter,
     iterations |-> iterations, most |-> most, emitted |-> emitted]

\* The statements of expand_repeat after its loop.
repeat_end(l, kind) ==
    LET nesting == SubSeq(l.ctx.nesting, 1, Len(l.ctx.nesting) - 1)
        buf == pop_n(l.buf, l.has_seps)
        most == Max(l.most, l.iterations)
    IN
    [nesting |-> nesting,
     err |-> IF kind = "OneOrMore" /\ l.counter = 0 THEN "UnexpectedToken" ELSE "none",
     token_trees |-> IF kind = "OneOrMore" /\ l.counter = 0 THEN << >> ELSE buf,
     most |-> most, iterations |-> l.iterations, counter |-> l.counter,
     emitted |-> l.emitted]

\* The loop giving up two iterations late.
limit_reached_late(counter) == counter = limit + 2

\* `counter == limit`.
limit_reached(counter) == counter = limit

RECURSIVE expand_ops(_, _, _, _, _)
RECURSIVE expand_subtree(_, _, _)
RECURSIVE repeat_loop(_, _, _, _)
RECURSIVE expand_repeat(_, _, _, _)

\* The loop of expand_subtree from the i-th op on.
expand_ops(c, ops, i, buf, most) ==
    IF i > Len(ops) THEN Expanded(c.nesting, "none", buf, most)
    ELSE LET op == ops[i] IN
         IF op.op = "Leaf"
         THEN expand_ops(c, ops, i + 1, Append(buf, Leaf(op.text)), most)
         ELSE IF op.op = "Subtree"
         THEN LET tt == expand_subtree(c, op.subtree, op.text) IN
              IF tt.err # "none" THEN Expanded(tt.nesting, tt.err, << >>, Max(most, tt.most))
              ELSE expand_ops([c EXCEPT !.nesting = tt.nesting], ops, i + 1,
                              Append(buf, Subtree(op.text, tt.token_trees)),
                              Max(most, tt.most))
         ELSE IF op.op = "Var"
         THEN LET fragment == expand_var(c, op.text) IN
              IF fragment.err # "none"
              THEN Expanded(fragment.nesting, fragment.err, << >>, most)
              ELSE expand_ops([c EXCEPT !.nesting = fragment.nesting], ops, i + 1,
                              push_fragment(buf, fragment.fragment), most)
         ELSE LET fragment == expand_repeat(c, op.subtree, op.kind, op.separator) IN
              IF fragment.err # "none"
              THEN Expanded(fragment.nesting, fragment.err, << >>, Max(most, fragment.most))
              ELSE expand_ops([c EXCEPT !.nesting = fragment.nesting], ops, i + 1,
                              push_fragment(buf, Fragment(TRUE, Subtree("", fragment.token_trees))),
                              Max(most, fragment.most))

\* expand_subtree: the token trees of the subtree produced, under the
\* delimiter of the template.
expand_subtree(c, template, delimiter) == expand_ops(c, template, 1, << >>, 0)

\* The loop of expand_repeat.
repeat_loop(l, template, kind, separator) ==
    LET res == expand_subtree(l.ctx, template, "")
        top == Len(res.nesting)
        nesting_state == res.nesting[top]
        begun == [l EXCEPT !.iterations = @ + 1, !.most = Max(@, res.most),
                           !.ctx.nesting = res.nesting]
    IN
    IF nesting_state.at_end \/ ~nesting_state.hit THEN repeat_end(begun, kind)
    ELSE LET counted ==
                 [begun EXCEPT !.ctx.nesting[top].idx = @ + 1,
                               !.ctx.nesting[top].hit = FALSE,
                               !.counter = @ + 1]
         IN
         IF limit_reached(counted.counter) THEN repeat_end(counted, kind)
         ELSE IF res.err # "none" THEN repeat_loop(counted, template, kind, separator)
         ELSE LET pushed ==
                      [counted EXCEPT
                          !.buf = push_subtree(@, Subtree("", res.token_trees)) \o separator,
                          !.has_seps = IF separator # << >> THEN Len(separator) ELSE @,
                          !.emitted = Append(@, res.token_trees)]
              IN
              IF kind = "ZeroOrOne" THEN repeat_end(pushed, kind)
              ELSE repeat_loop(pushed, template, kind, separator)

\* expand_repeat.
expand_repeat(c, template, kind, separator) ==
    LET pushed == [c EXCEPT !.nesting = Append(@, NestingState(0, FALSE, FALSE))] IN
    repeat_loop(LoopState(pushed, << >>, 0, 0, 0, 0, << >>), template, kind, separator)

---------------------------------------------------------------------------
\* The transcriber specification: one expand_repeat call on a drawn template,
\* drawn bindings and a drawn nesting stack

Kinds == {"ZeroOrMore", "OneOrMore", "ZeroOrOne"}

\* No separator, an identifier, a literal, and two puncts.
Separators == {<< >>, <<Leaf("and")>>, <<Leaf("0")>>, <<Leaf(":"), Leaf(":")>>}

\* Bodies of a repetition without a repetition inside.
FlatTemplates ==
    {<<OpVar("x")>>, <<OpLeaf("a")>>, <<OpVar("x"), OpLeaf("a")>>,
     <<OpVar("x"), OpVar("y")>>, <<OpVar("u")>>, <<OpVar("crate"), OpVar("x")>>,
     <<OpSubtree("(", <<OpVar("x")>>)>>, <<OpVar("y"), OpLeaf(":")>>}

\* Bodies with a repetition inside.
NestedTemplates ==
    {<<OpRepeat(<<OpVar("x")>>, k, sep)>> : k \in Kinds, sep \in {<< >>, <<Leaf("+")>>}}
        \cup {<<OpVar("y"), OpRepeat(<<OpVar("x"), OpVar("y")>>, "ZeroOrMore", <<Leaf("+")>>)>>}

Templates == FlatTemplates \cup NestedTemplates

F(text) == BindingFragment(Leaf(text))

\* What `x` is bound to.
BindingsOfX ==
    {F("p"),
     BindingFragment(Subtree("", <<Leaf("p"), Leaf("q")>>)),
     BindingEmpty,
     BindingNested(<< >>),
     BindingNested(<<F("p")>>),
     BindingNested(<<F("p"), F("q"), F("r")>>),
     BindingNested(<<F("p"), BindingEmpty, F("r")>>),
     BindingNested(<<BindingNested(<<F("p"), F("q")>>), BindingNested(<< >>),
                     BindingNested(<<F("r")>>)>>)}

\* What `y` is bound to.
BindingsOfY == {F("s"), BindingNested(<<F("s"), F("t")>>)}

\* The nesting stack at the call: outside every repetition, or inside one.
Nestings ==
    {<< >>, <<NestingState(0, FALSE, FALSE)>>, <<NestingState(1, TRUE, FALSE)>>}

RepeatCall(template, kind, separator) ==
    [method |-> "expand_repeat", template |-> template, kind |-> kind,
     separator |-> separator]

\* What expand_repeat has not returned yet.
NotExpanded ==
    [nesting |-> << >>, err |-> "pending", token_trees |-> << >>, most |-> 0,
     iterations |-> 0, counter |-> 0, emitted |-> << >>]

InitExpand ==
    /\ OFFSET_IS_ADDR = FALSE
    /\ mem = << >>
    /\ dest = Unwritten
    /\ ecx = AtCallSite
    /\ buffer = NoBuffer
    /\ \E t \in Templates, k \in Kinds, sep \in Separators : call = RepeatCall(t, k, sep)
    /\ \E x \in BindingsOfX, y \in BindingsOfY, n \in Nestings :
          ctx = [bindings |-> [name \in {"x", "y"} |-> IF name = "x" THEN x ELSE y],
                 nesting |-> n]
    /\ outcome = NotExpanded

ExpandRepeat ==
    /\ outcome.err = "pending"
    /\ LET r == expand_repeat(ctx, call.template, call.kind, call.separator) IN
       /\ outcome' = r
       /\ ctx' = [ctx EXCEPT !.nesting = r.nesting]
    /\ UNCHANGED <<OFFSET_IS_ADDR, mem, call, dest, ecx, buffer>>

NextExpand == ExpandRepeat

SpecExpand == InitExpand /\ [][NextExpand]_vars

---------------------------------------------------------------------------
\* Vocabulary of the properties

Returned == outcome.status # "pending"
IsOffsetFrom == call.intrinsic_name \in OffsetFromNames
IsSigned == call.intrinsic_name = "ptr_offset_from"
IsUnsigned == call.intrinsic_name = "ptr_offset_from_unsigned"
IsOffsetInbounds == call.intrinsic_name = "ptr_offset_inbounds"

IsBare(p) == p.prov = NoProv
SameAlloc(a, b) == a.prov # NoProv /\ a.prov = b.prov

\* The byte offset of a pointer into its allocation.
OffsetOf(p) == ptr_try_get_alloc_id(p).offset

\* The pointer into allocation id at byte offset off.
AtOffset(id, off) == Ptr(id, IF OFFSET_IS_ADDR THEN mem[id].base + off ELSE off)

\* A pointer's numeric address is known when it is a bare integer or the
\* machine's pointers carry absolute addresses; two pointers into the same
\* allocation are at the same address when their offsets agree.
AddrKnown(p) == IsBare(p) \/ OFFSET_IS_ADDR
AddrEqual(a, b) ==
    \/ AddrKnown(a) /\ AddrKnown(b) /\ a.offset = b.offset
    \/ SameAlloc(a, b) /\ a.offset = b.offset

\* Byte x (an address, or an offset when pointers are relative) lies inside
\* live allocation id.
InAlloc(id, x) ==
    /\ id # NoProv
    /\ mem[id].live
    /\ LET off == IF OFFSET_IS_ADDR THEN x - mem[id].base ELSE x IN
       0 <= off /\ off < mem[id].size

\* The numeric address of a pointer.
AddrOf(p) ==
    IF IsBare(p) \/ OFFSET_IS_ADDR THEN p.offset
    ELSE (mem[p.prov].base + p.offset) % max_ptr_plus_1

\* The n bytes at p can be accessed, and their cells.
RangeOk(p, n) == check_ptr_access(p, n) = "none"
RangeCells(p, n) == range_cells(mem, p, n)
RangeHasProv(p, n) == \E i \in 1..n : RangeCells(p, n)[i].prov # NoProv
RangeInit(p, n) == \A i \in 1..n : RangeCells(p, n)[i].init

BoundsErrors == {"DanglingIntPointer", "PointerOutOfBounds", "PointerUseAfterFree"}

---------------------------------------------------------------------------
\* The allocations of memory m that are live.
LiveAllocs(m) == {id \in 1..Len(m) : m[id].live}

\* C1: typed_swap releases its scratch allocation on every exit path: when
\* the call has returned, with success or with an error of one of its
\* copies, the live allocations are those of before the call.
C1_ScratchReleased ==
    (Returned /\ call.intrinsic_name = "typed_swap") => LiveAllocs(mem) = {1, 2}

C4_DifferentAllocations ==
    (/\ Returned /\ IsOffsetFrom
     /\ ~AddrEqual(call.a, call.b)
     /\ ~SameAlloc(call.a, call.b)
     /\ ~(IsBare(call.a) /\ IsBare(call.b))) =>
        /\ outcome.status = "err"
        /\ outcome.err = "offset_from_different_allocations"
        /\ dest = Unwritten

C4_Witness ==
    /\ Returned /\ IsOffsetFrom
    /\ ~IsBare(call.a) /\ IsBare(call.b) /\ ~AddrEqual(call.a, call.b)
    /\ outcome.err = "offset_from_different_allocations"
    /\ dest = Unwritten

C7_DistanceRepresentable ==
    (Returned /\ IsOffsetFrom) =>
        /\ outcome.status # "panic"
        /\ outcome.has_dist =>
             IF IsUnsigned
             THEN outcome.dist \in 0..target_isize_max
             ELSE outcome.dist \in (target_isize_min + 1)..target_isize_max
        /\ (/\ SameAlloc(call.a, call.b)
            /\ unsigned_abs(OffsetOf(call.a) - OffsetOf(call.b)) > target_isize_max) =>
             (outcome.status = "err" /\ ~outcome.has_dist /\ dest = Unwritten)

C7_Witness ==
    /\ Returned /\ IsSigned /\ SameAlloc(call.a, call.b)
    /\ OffsetOf(call.a) - OffsetOf(call.b) = target_isize_min
    /\ outcome.err = "offset_from_underflow"

\* C8: the call succeeds only if the byte span from the lower pointer, of
\* length |distance|, is dereferenceable, and that check comes before the
\* division: a span out of bounds fails with the bounds UB even when the
\* distance is no multiple of the pointee size, and an in-bounds distance
\* that is no multiple fails with the exact-division UB.
C8_BoundsBeforeDivision ==
    (Returned /\ IsOffsetFrom /\ outcome.has_dist) =>
        LET lower == IF outcome.dist < 0 THEN call.a ELSE call.b
            len == unsigned_abs(outcome.dist)
            span_ok == /\ check_ptr_access(lower, len) = "none"
                       /\ \A k \in 0..(len - 1) : InAlloc(lower.prov, lower.offset + k)
            multiple == outcome.dist % call.pointee_size = 0
        IN
        /\ outcome.status = "ok" => (span_ok /\ multiple)
        /\ ~span_ok => (outcome.status = "err" /\ outcome.err \in BoundsErrors)
        /\ (span_ok /\ ~multiple) =>
             (outcome.status = "err" /\ outcome.err = "exact_div_has_remainder")
        /\ outcome.status = "err" => dest = Unwritten

C8_Witness ==
    /\ Returned /\ IsOffsetFrom /\ outcome.has_dist
    /\ outcome.dist % call.pointee_size # 0
    /\ outcome.err = "PointerOutOfBounds"

\* C9: ptr_offset_inbounds returns a pointer only if ptr + offset_bytes does
\* not overflow the address space and every byte between the lower and the
\* higher of ptr and the target lies inside one allocation (one past the end
\* allowed); the result is then ptr + offset_bytes with ptr's provenance.
\* Otherwise it fails with UB and returns no pointer.
C9_OffsetInbounds ==
    (Returned /\ IsOffsetInbounds) =>
        LET ptr == call.a
            n == call.offset_bytes
            target == ptr.offset + n
            lo == IF n >= 0 THEN ptr.offset ELSE target
        IN
        /\ outcome.status \in {"ok", "err"}
        /\ outcome.status = "ok" =>
             /\ 0 <= target /\ target < max_ptr_plus_1
             /\ \A k \in 0..(unsigned_abs(n) - 1) : InAlloc(ptr.prov, lo + k)
             /\ outcome.ptr = Ptr(ptr.prov, target)
        /\ outcome.status = "err" => outcome.ptr = NullPtr

C9_Witness ==
    /\ Returned /\ IsOffsetInbounds
    /\ call.offset_bytes < 0 /\ ~IsBare(call.a)
    /\ outcome.status = "ok"

C12_ArithOffsetWraps ==
    (Returned /\ call.intrinsic_name = "arith_offset") =>
        /\ outcome.status = "ok"
        /\ outcome.ptr.prov = call.a.prov
        /\ AddrOf(outcome.ptr) =
             (AddrOf(call.a) + call.offset_count * call.pointee_size) % max_ptr_plus_1
        /\ dest = Written(outcome.ptr)

\* A pointer outside its allocation, moved by a product that wraps in i64.
C12_Witness ==
    /\ Returned /\ call.intrinsic_name = "arith_offset"
    /\ call.a = Ptr(2, 30)
    /\ call.offset_count * call.pointee_size >= 2^(i64_bits - 1)
    /\ outcome.status = "ok" /\ dest = Written(outcome.ptr)

\* C13: when count * sizeof(pointee) fails the checked multiplication, copy,
\* copy_nonoverlapping and write_bytes fail with "size overflow" and change
\* no byte, initialization bit or provenance of any allocation. For copy the
\* multiplication comes before the pointers are read, so this holds whether
\* or not they can be read, are aligned or are in bounds; write_bytes reaches
\* the multiplication once it has read its pointer and its byte.
C13_SizeOverflowTouchesNothing ==
    [][(/\ outcome.status = "pending"
        /\ call.intrinsic_name \in {"copy", "copy_nonoverlapping", "write_bytes"}
        /\ call.count.ok
        /\ ~checked_mul(call.layout.size, call.count.val).some
        /\ call.intrinsic_name = "write_bytes" => (call.dst.ok /\ call.byte.ok))
       => (/\ outcome'.status = "err"
           /\ outcome'.err = "size_overflow"
           /\ mem' = mem
           /\ dest' = dest)]_vars

\* A copy whose source cannot be read and whose size overflows.
C13_Witness ==
    /\ Returned /\ call.intrinsic_name = "copy"
    /\ ~call.src.ok /\ call.count.ok
    /\ call.layout.size * call.count.val >= max_ptr_plus_1
    /\ outcome.err = "size_overflow"

C15_RawEq ==
    (/\ Returned /\ call.intrinsic_name = "raw_eq"
     /\ call.lhs.ok /\ call.rhs.ok) =>
        LET l == call.lhs.val
            r == call.rhs.val
            n == call.layout.size
            lb == [i \in 1..n |-> RangeCells(l, n)[i].byte]
            rb == [i \in 1..n |-> RangeCells(r, n)[i].byte]
        IN
        /\ n = 0 => (outcome.status = "ok" /\ outcome.val = TRUE)
        /\ (n > 0 /\ RangeOk(l, n) /\ RangeOk(r, n)) =>
             /\ (RangeHasProv(l, n) \/ RangeHasProv(r, n)) => outcome.status = "err"
             /\ (RangeHasProv(l, n) \/ (RangeHasProv(r, n) /\ RangeInit(l, n))) =>
                    outcome.err = "raw_eq_with_provenance"
             /\ (/\ ~RangeHasProv(l, n) /\ ~RangeHasProv(r, n)
                 /\ RangeInit(l, n) /\ RangeInit(r, n)) =>
                    (outcome.status = "ok" /\ outcome.val = (lb = rb))
        /\ outcome.status = "ok" => dest = Written(outcome.val)
        /\ outcome.status = "err" => dest = Unwritten
        /\ (/\ mem = BulkMem(ZeroBuf, ZeroBuf)
            /\ l = BulkPtr(1, 0) /\ r = BulkPtr(2, 0) /\ n = MaxLen) =>
             (outcome.status = "ok" /\ outcome.val = TRUE)

\* Two ranges whose bytes differ, the second with provenance.
C15_Witness ==
    /\ Returned /\ call.intrinsic_name = "raw_eq"
    /\ mem = BulkMem(Buf124, BufProv)
    /\ call.lhs = Operand(BulkPtr(1, 0)) /\ call.rhs = Operand(BulkPtr(2, 0))
    /\ call.layout.size = MaxLen
    /\ outcome.status = "err" /\ outcome.err = "raw_eq_with_provenance"

\* The byte offsets into allocation id that the n bytes at p cover.
Covered(p, n, id) ==
    IF p.prov = id
    THEN {OffsetOf(p) + k : k \in 0..(n - 1)}
    ELSE {}

\* C16: a typed_swap that succeeds on two locations that do not overlap
\* exchanges their contents, initialization state and provenance included:
\* left then holds what right held and right what left held, every byte
\* outside the two locations is unchanged, and a second typed_swap of the
\* same locations restores the original memory.
C16_SwapExchanges ==
    [][(/\ outcome.status = "pending"
        /\ call.intrinsic_name = "typed_swap"
        /\ outcome'.status = "ok"
        /\ \A id \in 1..2 :
              Covered(call.a, call.pointee_size, id)
                  \cap Covered(call.b, call.pointee_size, id) = {})
       => LET n == call.pointee_size
              again == typed_swap_intrinsic(mem', call.a, call.b, n)
          IN
          /\ range_cells(mem', call.a, n) = range_cells(mem, call.b, n)
          /\ range_cells(mem', call.b, n) = range_cells(mem, call.a, n)
          /\ \A id \in 1..2 :
                /\ mem'[id].live = mem[id].live
                /\ mem'[id].base = mem[id].base
                /\ mem'[id].size = mem[id].size
                /\ \A i \in 1..mem[id].size :
                      (i - 1) \notin (Covered(call.a, n, id) \cup Covered(call.b, n, id))
                          => mem'[id].cells[i] = mem[id].cells[i]
          /\ again.outcome.status = "ok"
          /\ SubSeq(again.mem, 1, 2) = SubSeq(mem, 1, 2)]_vars

\* After the swap of the whole of allocation 1 with the whole of allocation
\* 2: an uninitialized byte and a stored pointer's byte now in allocation 2.
C16_Witness ==
    /\ Returned /\ call.intrinsic_name = "typed_swap"
    /\ call.a = AtOffset(1, 0) /\ call.b = AtOffset(2, 0)
    /\ call.pointee_size = 2
    /\ outcome.status = "ok"
    /\ mem[1].cells = << Cell(TRUE, 1, NoProv), Cell(TRUE, 1, NoProv) >>
    /\ mem[2].cells = << UninitCell, Cell(TRUE, 2, 1) >>

\* The call is intrinsic nm on operands l and r of an 8-bit type.
IsCall8(nm, signed, l, r) ==
    /\ call.intrinsic_name = nm
    /\ call.bits = 8 /\ call.signed = signed
    /\ call.l = l /\ call.r = r

\* C17: saturating_add and saturating_sub return the exact sum or difference
\* clamped to the range of the type: a signed result saturates to the signed
\* maximum or minimum, which the sign of the first operand alone decides, an
\* unsigned sum to the unsigned maximum and an unsigned difference to 0.
\* i8: 120 + 50 is 127 and -120 + -50 is -128; u8: 10 - 20 is 0 and
\* 200 + 100 is 255.
C17_SaturatingClamps ==
    (Returned /\ call.intrinsic_name \in SaturatingNames) =>
        LET exact == IF call.intrinsic_name = "saturating_add"
                     THEN call.l + call.r ELSE call.l - call.r
            lo == IF call.signed THEN -(2^(call.bits - 1)) ELSE 0
            hi == IF call.signed THEN 2^(call.bits - 1) - 1 ELSE 2^call.bits - 1
        IN
        /\ outcome.status = "ok"
        /\ outcome.val = IF exact > hi THEN hi ELSE IF exact < lo THEN lo ELSE exact
        /\ dest = Written(outcome.val)
        /\ (call.signed /\ exact > hi) => call.l >= 0
        /\ (call.signed /\ exact < lo) => call.l < 0
        /\ IsCall8("saturating_add", TRUE, 120, 50) => outcome.val = 127
        /\ IsCall8("saturating_add", TRUE, -120, -50) => outcome.val = -128
        /\ IsCall8("saturating_sub", FALSE, 10, 20) => outcome.val = 0
        /\ IsCall8("saturating_add", FALSE, 200, 100) => outcome.val = 255

\* A signed difference that overflows upwards with a negative second term.
C17_Witness ==
    /\ Returned /\ IsCall8("saturating_sub", TRUE, 120, -50)
    /\ outcome.status = "ok" /\ outcome.val = 127 /\ dest = Written(127)

\* C18: exact_div(a, b) writes a quotient q only when b is not 0, (a, b) is
\* not (MIN, -1) and b divides a, and then q * b = a; when b does not divide
\* a it fails with the "has remainder" UB; when b is 0 or (a, b) is
\* (MIN, -1) it fails with the UB of the remainder or division primitive; a
\* call that fails does not write the destination. exact_div(10, 5) is 2 and
\* exact_div(10, 3) fails.
C18_ExactDiv ==
    (Returned /\ call.intrinsic_name = "exact_div") =>
        LET a == call.l
            b == call.r
            min_by_minus_1 == call.signed /\ a = -(2^(call.bits - 1)) /\ b = -1
            divides == b # 0 /\ unsigned_abs(a) % unsigned_abs(b) = 0
        IN
        /\ outcome.status \in {"ok", "err"}
        /\ (outcome.status = "ok") <=> (b # 0 /\ ~min_by_minus_1 /\ divides)
        /\ outcome.status = "ok" =>
             (outcome.val * b = a /\ dest = Written(outcome.val))
        /\ (b # 0 /\ ~divides) => outcome.err = "exact_div_has_remainder"
        /\ b = 0 => outcome.err \in {"RemainderByZero", "DivisionByZero"}
        /\ min_by_minus_1 => outcome.err \in {"RemainderOverflow", "DivisionOverflow"}
        /\ outcome.status = "err" => dest = Unwritten
        /\ (a = 10 /\ b = 5) => (outcome.status = "ok" /\ outcome.val = 2)
        /\ (a = 10 /\ b = 3) => outcome.status = "err"

C18_Witness ==
    /\ Returned /\ IsCall8("exact_div", TRUE, 10, 3)
    /\ outcome.status = "err" /\ outcome.err = "exact_div_has_remainder"
    /\ dest = Unwritten

\* Bit i and byte i of x, counted from the least significant.
BitOf(x, i) == (x \div 2^i) % 2
ByteOf(x, i) == (x \div 256^i) % 256

\* C19: for every width W and every W-bit value x, bit_reverse and byte_swap
\* each yield a value that fits in W bits, with the bits or the bytes of x
\* in the opposite order, and applying either twice gives x back.
C19_SwapAndReverseInvolutions ==
    (Returned /\ call.intrinsic_name \in ReorderNames) =>
        LET W == call.bits
            x == call.val
        IN
        /\ outcome.status = "ok"
        /\ outcome.val \in 0..(2^W - 1)
        /\ dest = Written(outcome.val)
        /\ call.intrinsic_name = "bitreverse" =>
             \A i \in 0..(W - 1) : BitOf(outcome.val, i) = BitOf(x, W - 1 - i)
        /\ call.intrinsic_name = "bswap" =>
             \A i \in 0..((W \div 8) - 1) :
                 ByteOf(outcome.val, i) = ByteOf(x, (W \div 8) - 1 - i)
        /\ numeric_intrinsic(call.intrinsic_name, outcome.val, W, W) = OkVal(x, 0)

\* The two bytes 0x12 0x34 swapped.
C19_Witness ==
    /\ Returned /\ call.intrinsic_name = "bswap"
    /\ call.bits = 16 /\ call.val = 4660
    /\ outcome.status = "ok" /\ outcome.val = 13330

\* C20: the shift of a rotation is reduced modulo BW, the width of x:
\* rotate_left(x, s) is rotate_right(x, BW - (s mod BW)) when s mod BW is not
\* 0, rotate_left(x, s) and rotate_right(x, s) are x when s mod BW is 0, and
\* rotate_right(rotate_left(x, s), s) is x.
C20_Rotate ==
    (Returned /\ call.intrinsic_name \in RotateNames) =>
        LET BW == call.bits
            x == call.val
            s == call.raw_shift
            k == s % BW
            left == ((x * 2^k) % 2^BW) + (x \div 2^(BW - k))
            right == (x \div 2^k) + ((x * 2^(BW - k)) % 2^BW)
        IN
        /\ outcome.status = "ok"
        /\ dest = Written(outcome.val)
        /\ k = 0 => outcome.val = x
        /\ (k # 0 /\ call.intrinsic_name = "rotate_left") =>
             /\ outcome.val = left
             /\ outcome = rotate("rotate_right", x, BW - k, BW)
        /\ (k # 0 /\ call.intrinsic_name = "rotate_right") => outcome.val = right
        /\ call.intrinsic_name = "rotate_left" =>
             rotate("rotate_right", outcome.val, s, BW) = OkVal(x, 0)
        /\ outcome = rotate(call.intrinsic_name, x, k, BW)

\* 0x81 rotated left by 9, one more than the width.
C20_Witness ==
    /\ Returned /\ call.intrinsic_name = "rotate_left"
    /\ call.bits = 8 /\ call.val = 129 /\ call.raw_shift = 9
    /\ outcome.status = "ok" /\ outcome.val = 3

\* The bit pattern of the argument of a counting intrinsic.
ArgBits == to_bits(call.val, call.bits)

\* C21: ctlz_nonzero(x) and cttz_nonzero(x) fail with the nonzero-intrinsic
\* UB error exactly when x is 0, writing nothing, and for every other x
\* return what ctlz(x) and cttz(x) return; ctlz and cttz never fail.
C21_NonzeroVariants ==
    (Returned /\ call.intrinsic_name \in CountNames \ {"ctpop"}) =>
        LET nm == call.intrinsic_name
            unchecked == IF nm \in {"ctlz", "ctlz_nonzero"} THEN "ctlz" ELSE "cttz"
        IN
        /\ nm \in {"ctlz_nonzero", "cttz_nonzero"} =>
             /\ (outcome.status # "ok") <=> (ArgBits = 0)
             /\ ArgBits = 0 =>
                  /\ outcome = Throw("call_nonzero_intrinsic")
                  /\ dest = Unwritten
             /\ ArgBits # 0 =>
                  /\ outcome = numeric_intrinsic(unchecked, ArgBits, call.bits, call.ret_bits)
                  /\ dest = Written(outcome.val)
        /\ nm \in {"ctlz", "cttz"} =>
             /\ outcome.status = "ok"
             /\ dest = Written(outcome.val)

\* cttz_nonzero of an 8-bit zero.
C21_Witness ==
    /\ Returned /\ call.intrinsic_name = "cttz_nonzero"
    /\ call.bits = 8 /\ call.val = 0
    /\ outcome = Throw("call_nonzero_intrinsic")

\* The positions of the set bits of a pattern of the given width.
SetBits(x, W) == {i \in 0..(W - 1) : BitOf(x, i) = 1}

\* C22: for every width BW and every BW-bit pattern x, of a signed or an
\* unsigned type, ctpop(x), ctlz(x) and cttz(x) return the number of set bits,
\* of leading zero bits and of trailing zero bits of the BW-bit pattern: each
\* lies in 0..BW, ctlz(0) and cttz(0) are BW, and ctlz(x) + cttz(x) <= BW
\* when x is not 0.
C22_CountsOfThePattern ==
    (Returned /\ call.intrinsic_name \in {"ctpop", "ctlz", "cttz"}) =>
        LET nm == call.intrinsic_name
            BW == call.bits
            x == ArgBits
            set == SetBits(x, BW)
            highest == CHOOSE i \in set : \A j \in set : j <= i
            lowest == CHOOSE i \in set : \A j \in set : i <= j
        IN
        /\ outcome.status = "ok"
        /\ dest = Written(outcome.val)
        /\ outcome.val \in 0..BW
        /\ nm = "ctpop" => outcome.val = Cardinality(set)
        /\ (nm = "ctlz" /\ x = 0) => outcome.val = BW
        /\ (nm = "cttz" /\ x = 0) => outcome.val = BW
        /\ (nm = "ctlz" /\ x # 0) => outcome.val = BW - 1 - highest
        /\ (nm = "cttz" /\ x # 0) => outcome.val = lowest
        /\ x # 0 =>
             numeric_intrinsic("ctlz", x, BW, call.ret_bits).val
                 + numeric_intrinsic("cttz", x, BW, call.ret_bits).val <= BW

\* ctlz of the i8 -128 written to a 16-bit destination, and of an 8-bit
\* pattern with padding in the working width.
C22_Witness ==
    /\ Returned /\ call.intrinsic_name = "ctlz"
    /\ call.bits = 8 /\ call.signed /\ call.val = -128 /\ call.ret_bits = 16
    /\ outcome.status = "ok" /\ outcome.val = 0

\* emulate_intrinsic has returned.
Exited == ecx.pc = "done"

\* Whether the type of an assertion call meets the requirement of the
\* intrinsic, as the layout engine reports it.
RequirementMet ==
    CASE call.intrinsic_name = "assert_inhabited" -> ~call.ty.uninhabited
      [] call.intrinsic_name = "assert_zero_valid" -> call.ty.zero_valid
      [] call.intrinsic_name = "assert_mem_uninitialized_valid" -> call.ty.uninit_valid

\* C23: for assert_inhabited, assert_zero_valid and
\* assert_mem_uninitialized_valid: when the layout engine reports the
\* requirement violated, the machine's panic primitive is invoked once,
\* nothing is written to the destination, the frame does not advance to the
\* return block, and the message is the one for an uninhabited type whenever
\* the type is uninhabited, else the one of the requirement; when the
\* requirement is met no panic is invoked and the call returns through
\* return_to_block; when the layout engine cannot decide the call fails with
\* TooGeneric, with no panic.
C23_ValidityAssertions ==
    (call.intrinsic_name \in AssertNames) =>
        /\ ~Exited => ecx.panics = << >> /\ dest = Unwritten /\ ecx.returns = 0
        /\ ecx.pc = "return_to_block" => call.ty.known /\ RequirementMet
        /\ (Exited /\ ~call.ty.known) =>
             /\ outcome = Throw("TooGeneric")
             /\ ecx.panics = << >> /\ dest = Unwritten
             /\ ecx.loc = "call" /\ ecx.returns = 0
        /\ (Exited /\ call.ty.known /\ ~RequirementMet) =>
             /\ Len(ecx.panics) = 1
             /\ dest = Unwritten
             /\ ecx.loc = "call" /\ ecx.returns = 0
             /\ outcome = IF call.panic_returns THEN Handled ELSE Throw("Panic")
             /\ call.ty.uninhabited => ecx.panics[1] = UninhabitedMsg
             /\ (~call.ty.uninhabited /\ call.intrinsic_name = "assert_zero_valid") =>
                  ecx.panics[1] = ZeroMsg
             /\ (~call.ty.uninhabited
                    /\ call.intrinsic_name = "assert_mem_uninitialized_valid") =>
                  ecx.panics[1] = UninitMsg
        /\ (Exited /\ call.ty.known /\ RequirementMet) =>
             /\ ecx.panics = << >>
             /\ dest = Unwritten
             /\ call.ret => outcome = Handled /\ ecx.loc = "ret" /\ ecx.returns = 1
             /\ ~call.ret => outcome = Throw("Unreachable") /\ ecx.loc = "call"

\* assert_zero_valid of an uninhabited type.
C23_Witness ==
    /\ Exited /\ call.intrinsic_name = "assert_zero_valid"
    /\ call.ty.known /\ call.ty.uninhabited
    /\ ecx.panics = <<UninhabitedMsg>>
    /\ ecx.loc = "call" /\ dest = Unwritten

\* C24: for a name that emulate_intrinsic does not implement, the call
\* returns Unhandled, Ok(false), never an error, and leaves the destination,
\* the memory and the position of the calling frame as they were.
C24_UnsupportedIsUnhandled ==
    [][(call.intrinsic_name \in UnsupportedNames) =>
          /\ outcome' = Unhandled
          /\ dest' = dest
          /\ mem' = mem
          /\ ecx'.loc = ecx.loc /\ ecx'.returns = ecx.returns
          /\ ecx'.panics = ecx.panics
          /\ ecx'.pc = "done"]_vars

\* An unimplemented name met with a destination that holds a value.
C24_Witness ==
    /\ Exited /\ call.intrinsic_name = "volatile_load"
    /\ outcome = Unhandled
    /\ dest = Written(1) /\ ecx.loc = "call"

\* The arms that write a result to the destination.
WritesResult == call.intrinsic_name \in NumericNames \cup {"exact_div", "black_box"}

\* C28: within one emulate_intrinsic call the frame is advanced to the return
\* block at most once, only after the result of the intrinsic, if it has one,
\* was written to the destination, and exactly when the call returns Handled
\* without a validity assertion having panicked; it is never advanced when
\* the call returns Unhandled or an error, nor after a panic.
C28_ReturnToBlockOnce ==
    /\ ecx.returns \in {0, 1}
    /\ (ecx.loc = "ret") <=> (ecx.returns = 1)
    /\ ecx.returns = 1 =>
         /\ Exited
         /\ WritesResult => dest.written
         /\ call.intrinsic_name = "black_box" => dest = Written(call.val)
    /\ ecx.pc = "return_to_block" => (WritesResult => dest.written)
    /\ Exited => ((ecx.returns = 1) <=> (outcome = Handled /\ ecx.panics = << >>))
    /\ outcome.status \in {"unhandled", "err", "panic"} => ecx.returns = 0
    /\ ecx.panics # << >> => ecx.returns = 0

\* A Handled call whose machine was told of a panic and returned: the frame
\* stays at the call.
C28_Witness ==
    /\ Exited /\ call.intrinsic_name \in AssertNames
    /\ outcome = Handled /\ ecx.panics # << >>
    /\ ecx.returns = 0 /\ ecx.loc = "call"

\* The signed saturating call evaluated has an operand that is 0.
SignedWithZeroOperand ==
    /\ Returned /\ call.intrinsic_name \in SaturatingNames
    /\ call.signed
    /\ call.l = 0 \/ call.r = 0

\* What the overflowing primitive reports for the saturating call evaluated.
PrimitiveResult ==
    binary_op_with_overflow(IF call.intrinsic_name = "saturating_add" THEN "Add" ELSE "Sub",
                            call.l, call.r, call.signed, call.bits)

C25_PosWithinFilled ==
    /\ buffer.pos <= buffer.filled
    /\ buffer.filled <= capacity(buffer)
    /\ ~buffer_slice(buffer).ub
    /\ call.method = "fill_buf" => outcome.status # "panic"
    /\ outcome.status # "ub"

\* consume of more than what is left unread, of a buffer that holds bytes.
C25_Witness ==
    /\ call.method = "consume" /\ call.amt = 3
    /\ outcome.status = "ok"
    /\ buffer.filled = 2 /\ buffer.pos = 2

\* C26: in every reachable state filled <= initialized <= capacity and the
\* first `initialized` bytes of buf, so the first `filled`, are initialized;
\* no method makes `initialized` smaller (discard_buffer resets pos and
\* filled only), given a reader that only grows the filled and initialized
\* prefix of what it is handed.
C26_FilledWithinInitialized ==
    [][/\ buffer'.filled <= buffer'.initialized
       /\ buffer'.initialized <= capacity(buffer')
       /\ \A i \in 1..buffer'.initialized : buffer'.buf[i].init
       /\ buffer'.initialized >= buffer.initialized
       /\ capacity(buffer') = capacity(buffer)]_vars

\* A discarded buffer that keeps two bytes known to be initialized.
C26_Witness ==
    /\ call.method = "discard_buffer"
    /\ buffer.pos = 0 /\ buffer.filled = 0
    /\ buffer.initialized = 2

\* The counters of a Buffer.
Counters(b) == <<b.pos, b.filled, b.initialized>>

\* The bytes of pos..filled, read off the cells.
Unread(b) == [i \in 1..(b.filled - b.pos) |-> b.buf[b.pos + i].byte]

\* C29: fill_buf invokes the reader only when pos == filled; when
\* pos < filled it returns the unread bytes pos..filled and leaves pos, filled
\* and initialized unchanged; when the reader fails, fill_buf fails and pos,
\* filled and initialized are unchanged; after a successful refill pos is 0
\* and filled is the number of bytes the reader produced. consume_with(amt, _)
\* returns true and advances pos by amt when amt <= filled - pos, and
\* otherwise returns false and changes nothing.
C29_FillBufAndConsumeWith ==
    [][/\ call'.method = "fill_buf" =>
            /\ outcome'.read <=> (buffer.pos = buffer.filled)
            /\ buffer.pos < buffer.filled =>
                 /\ outcome'.status = "ok"
                 /\ outcome'.bytes = Unread(buffer)
                 /\ buffer' = buffer
            /\ (outcome'.status = "err") <=> (outcome'.read /\ call'.reader.fails)
            /\ outcome'.status = "err" => Counters(buffer') = Counters(buffer)
            /\ (outcome'.read /\ outcome'.status = "ok") =>
                 /\ buffer'.pos = 0
                 /\ buffer'.filled = Len(call'.reader.data)
                 /\ outcome'.bytes = call'.reader.data
            /\ outcome'.status \in {"ok", "err"}
       /\ call'.method = "consume_with" =>
            /\ outcome'.status = "ok"
            /\ call'.amt <= buffer.filled - buffer.pos =>
                 /\ outcome'.taken
                 /\ outcome'.bytes = SubSeq(Unread(buffer), 1, call'.amt)
                 /\ buffer' = [buffer EXCEPT !.pos = buffer.pos + call'.amt]
            /\ call'.amt > buffer.filled - buffer.pos =>
                 /\ ~outcome'.taken
                 /\ buffer' = buffer]_vars

\* A reader that failed on a buffer exhausted at two bytes.
C29_Witness ==
    /\ call.method = "fill_buf" /\ call.reader.fails
    /\ outcome.status = "err" /\ outcome.read
    /\ buffer.pos = 2 /\ buffer.filled = 2

\* The repetitions joined by the separator, with none after the last.
RECURSIVE Joined(_, _)
Joined(repetitions, separator) ==
    IF repetitions = << >> THEN << >>
    ELSE IF Len(repetitions) = 1 THEN repetitions[1]
    ELSE repetitions[1] \o separator \o Joined(Tail(repetitions), separator)

\* C30: expand_repeat returns for every template and bindings drawn: its loop,
\* and every loop of a repetition inside, begins at most `limit` iterations,
\* the iterations whose expansion failed and was skipped counted too; the
\* nesting stack is as deep on exit as on entry; and the output is the
\* repetitions pushed, separated, with no separator left after the last.
C30_ExpandRepeatTerminates ==
    [][(outcome.err = "pending" /\ outcome'.err # "pending") =>
          /\ outcome'.iterations <= limit
          /\ outcome'.most <= limit
          /\ outcome'.counter <= limit
          /\ outcome'.iterations <= outcome'.counter + 1
          /\ Len(outcome'.emitted) <= outcome'.counter
          /\ Len(ctx'.nesting) = Len(ctx.nesting)
          /\ outcome'.err = "none" =>
               outcome'.token_trees = Joined(outcome'.emitted, call.separator)
          /\ outcome'.err # "none" =>
               /\ outcome'.err = "UnexpectedToken"
               /\ call.kind = "OneOrMore" /\ outcome'.counter = 0]_vars

\* A repetition inside an enclosing one whose variable never comes to an end:
\* the loop stops at the limit, and the separator of two puncts after the last
\* repetition is removed.
C30_Witness ==
    /\ outcome.err = "none"
    /\ outcome.iterations = limit /\ outcome.counter = limit
    /\ Len(outcome.emitted) = limit - 1
    /\ call.separator = <<Leaf(":"), Leaf(":")>>
    /\ Len(outcome.token_trees) = (limit - 1) + 2 * (limit - 2)
    /\ Len(ctx.nesting) = 1

====
